---- MODULE Spec2Model ----
(***************************************************************************)
(* A model of the TE-mapper core of StanX_tools: the genome-side builder,  *)
(* the insertion assembly engine (select_alignments, get_non_ref_tes,      *)
(* get_ref_tes) and the parallel selection pass (select_reads).            *)
(*                                                                         *)
(* The repository holds two binaries with the same pipeline:               *)
(*   "sx"     first_sam_file.rs, te_alignment.rs, second_sam_file.rs,      *)
(*            genome_alignment.rs, sx/.../select_reads.rs,                 *)
(*            sx/.../select_alignments.rs                                  *)
(*   "stanex" preprocess_select_reads.rs, preprocess_alignments.rs,        *)
(*            split_read.rs, stanex/.../select_reads.rs,                   *)
(*            stanex/.../select_alignments.rs                              *)
(* The variable bin says which one runs.                                   *)
(*                                                                         *)
(* Conventions.  A match-description (CIGAR) string is the sequence of its *)
(* characters.  A transposon name is the rank of the name in the           *)
(* lexicographic order of strings (0 is the empty string).  u64            *)
(* positions are small naturals; u64::MAX / 2 is scaled to the integer     *)
(* width of the checker (Sentinel).  A fraction such as 0.1 is the pair    *)
(* <<1, 10>>.                                                              *)
(***************************************************************************)
EXTENDS Integers, Sequences, FiniteSets, TLC

VARIABLES
    bin,          \* "sx" or "stanex"
    \* ---- select_alignments ------------------------------------------------
    genome_file,  \* the genome-aligned record stream (after its comments)
    line_no,      \* number of lines of genome_file consumed
    pools,        \* chromosome -> [nonref, ref]: Vec (sx) or heap array (stanex)
    arrived,      \* chromosome -> [nonref, ref] in arrival order (history)
    chrom_no,     \* number of chromosomes assembled
    output,       \* per assembled chromosome: [non_reference, reference]
    written,      \* the insertion rows written to the final output
    apc,          \* "reading", "assembling", "writing", "done", "panicked"
    params,       \* the arguments of select_alignments
    \* ---- select_reads -----------------------------------------------------
    te_file,      \* [header, records]: the TE-aligned record stream
    num_workers,  \* size of the worker pool
    reader_pos,   \* number of lines (header and records) consumed from te_file
    reader_lock,  \* holder of the reader mutex: MainThread, a WorkerThread or NoHolder
    writer_lock,  \* holder of the writer mutex: a WorkerThread or NoHolder
    counter_lock, \* holder of the line-number mutex
    line_num,     \* the shared line counter
    transposons,  \* the transposon length table
    wpc,          \* worker -> its position in the loop body
    wrec,         \* worker -> index of the record it holds (0: none)
    classified,   \* record index -> times handed to the TE-side builder
    accepted,     \* indices of the records the TE-side builder accepted
    selected,     \* the lines of the selected-reads output
    fatal_seen,   \* a mapped record with an unknown transposon was classified
    spc,          \* main thread: "header", "spawn", "join", "returned"
    \* ---- one call of a function of the library ----------------------------
    call_input,   \* the arguments of the call
    call_result   \* what the call returned (NotRun before the call)

asm_vars == <<genome_file, line_no, pools, arrived, chrom_no, output, written, apc,
              params>>
sel_vars == <<te_file, num_workers, reader_pos, reader_lock, writer_lock,
              counter_lock, line_num, transposons, wpc, wrec, classified,
              accepted, selected, fatal_seen, spc>>
call_vars == <<call_input, call_result>>
vars == <<bin, asm_vars, sel_vars, call_vars>>

Bins == {"sx", "stanex"}

(***************************************************************************)
(* Bounds of the model.                                                    *)
(***************************************************************************)
MaxLines == 4

(***************************************************************************)
(* split_read.rs / regexes.rs: the alignment shapes.                       *)
(***************************************************************************)
NoShape == [kind |-> "none"]

\* std::u64::MAX, scaled to the integer width of the checker
U64_MAX == 2147483647

\* the characters a match-description string is made of: the ASCII digits,
\* a decimal digit of another script, and everything else
AsciiDigits == {"0", "1", "2", "3", "4", "5", "6", "7", "8", "9"}
OtherDigit == "ARABIC-INDIC DIGIT THREE"

IsAsciiDigit(c) == c \in AsciiDigits
\* the class \d of the regex crate: any decimal digit of Unicode
IsDigit(c) == IsAsciiDigit(c) \/ c = OtherDigit
DigitValue ==
    [c \in AsciiDigits |->
        CASE c = "0" -> 0 [] c = "1" -> 1 [] c = "2" -> 2 [] c = "3" -> 3
          [] c = "4" -> 4 [] c = "5" -> 5 [] c = "6" -> 6 [] c = "7" -> 7
          [] c = "8" -> 8 [] c = "9" -> 9]

\* the last index of the run \d* that starts at index i (i - 1 if it is empty)
DigitRunEnd(cigar, i) ==
    CHOOSE e \in (i - 1)..Len(cigar) :
        /\ \A j \in i..e : IsDigit(cigar[j])
        /\ e = Len(cigar) \/ ~IsDigit(cigar[e + 1])

\* ^(\d+)first(\d+)second$
IsTwoRuns(cigar, first, second) ==
    \E e1 \in {DigitRunEnd(cigar, 1)} :
        /\ e1 >= 1
        /\ e1 + 1 <= Len(cigar)
        /\ cigar[e1 + 1] = first
        /\ \E e2 \in {DigitRunEnd(cigar, e1 + 2)} :
              /\ e2 >= e1 + 2
              /\ e2 + 1 = Len(cigar)
              /\ cigar[e2 + 1] = second

SM_REGEX(cigar) == IsTwoRuns(cigar, "S", "M")
MS_REGEX(cigar) == IsTwoRuns(cigar, "M", "S")
\* a pattern no string matches
NO_REGEX(cigar) == FALSE

HM_REGEX(cigar) == IsTwoRuns(cigar, "H", "M")
MH_REGEX(cigar) == IsTwoRuns(cigar, "M", "H")
\* ^\d+M$
M_REGEX(cigar) ==
    \E e1 \in {DigitRunEnd(cigar, 1)} :
        e1 >= 1 /\ e1 + 1 = Len(cigar) /\ cigar[e1 + 1] = "M"

\* the text of capture group 1 or 2 of a two-run match
CaptureText(cigar, which) ==
    IF which = 1 THEN SubSeq(cigar, 1, DigitRunEnd(cigar, 1))
    ELSE SubSeq(cigar, DigitRunEnd(cigar, 1) + 2, Len(cigar) - 1)

\* str::parse::<u64>: ASCII digits only, Err on the empty string and on
\* overflow (checked_mul, checked_add)
ParseErr == [ok |-> FALSE]
push_digit(acc, c) ==
    IF ~acc.ok \/ ~IsAsciiDigit(c) THEN ParseErr
    ELSE IF acc.v > (U64_MAX - DigitValue[c]) \div 10 THEN ParseErr
    ELSE [ok |-> TRUE, v |-> acc.v * 10 + DigitValue[c]]

parse_u64(digits) ==
    LET acc[k \in 0..Len(digits)] ==
            IF k = 0 THEN [ok |-> digits # <<>>, v |-> 0]
            ELSE CHOOSE r \in {push_digit(prev, digits[k]) : prev \in {acc[k - 1]}} : TRUE
    IN  acc[Len(digits)]

\* get_capture: the capture as a u64; the final unwrap() panics on ParseErr
get_capture(cigar, which) ==
    CHOOSE r \in {parse_u64(text) : text \in {CaptureText(cigar, which)}} : TRUE

SMAlignment(s, m, pos) == [kind |-> "SM", s |-> s, m |-> m, pos |-> pos]
MSAlignment(m, s, pos) == [kind |-> "MS", m |-> m, s |-> s, pos |-> pos]
MAlignment(old_s, old_m, is_start, new_plus, new_pos) ==
    [kind |-> "M", old_s |-> old_s, old_m |-> old_m, is_start |-> is_start,
     new_plus |-> new_plus, new_pos |-> new_pos]

\* the classification unwound in get_capture
PanicShape == [kind |-> "panic"]

\* "let s = get_capture(.., 1); let m = get_capture(.., 2); SM { s, m, pos }"
SMOf(cigar, pos) ==
    CHOOSE r \in {IF s.ok /\ m.ok THEN SMAlignment(s.v, m.v, pos) ELSE PanicShape :
                     s \in {get_capture(cigar, 1)}, m \in {get_capture(cigar, 2)}} : TRUE
\* "let m = get_capture(.., 1); let s = get_capture(.., 2); MS { m, s, pos }"
MSOf(cigar, pos) ==
    CHOOSE r \in {IF m.ok /\ s.ok THEN MSAlignment(m.v, s.v, pos) ELSE PanicShape :
                     m \in {get_capture(cigar, 1)}, s \in {get_capture(cigar, 2)}} : TRUE

\* the base before the first matching base, and the base after the last
get_last_s(a) == a.pos - 1
get_first_s(a) == a.pos + a.m

get_first_m(a) == a.pos
get_last_m(a) == a.pos + a.m - 1

\* the boundary with the two sizes of the TE side taken for each other
get_boundary_old_s(a) ==
    IF a.new_plus
    THEN IF a.is_start THEN a.new_pos + a.old_m ELSE a.new_pos + a.old_s - 1
    ELSE IF a.is_start THEN a.new_pos + a.old_s - 1 ELSE a.new_pos + a.old_m

get_boundary_old_m(a) ==
    IF a.new_plus
    THEN IF a.is_start THEN a.new_pos + a.old_s ELSE a.new_pos + a.old_m - 1
    ELSE IF a.is_start THEN a.new_pos + a.old_m - 1 ELSE a.new_pos + a.old_s

\* SplitReadGenome::parse: hard clips are read as soft clips
SplitReadGenome_parse(cigar, old_m, old_s, is_start, new_plus, pos) ==
    IF HM_REGEX(cigar)
    THEN SMOf(cigar, pos)
    ELSE IF MH_REGEX(cigar)
    THEN MSOf(cigar, pos)
    ELSE IF SM_REGEX(cigar)
    THEN SMOf(cigar, pos)
    ELSE IF MS_REGEX(cigar)
    THEN MSOf(cigar, pos)
    ELSE IF M_REGEX(cigar)
    THEN MAlignment(old_s, old_m, is_start, new_plus, pos)
    ELSE NoShape

(***************************************************************************)
(* GenomeAlignment: the genome-side builder.                               *)
(* A line is [qname, flag, rname, pos, cigar]; qname is the '|'-split      *)
(* selected-reads header <<read, te_name, m_size, s_size, SM|MS,           *)
(* start|end>>.  A build returns [res |-> "ok", chrom, al], [res |->       *)
(* "skip"] or [res |-> "panic"].                                           *)
(***************************************************************************)
is_mapped(flag) == (flag \div 4) % 2 = 0
is_plus(flag) == (flag \div 16) % 2 = 0

InSeq(x, s) == \E i \in 1..Len(s) : s[i] = x
validate_chrom(chrom, chroms) == InSeq(chrom, chroms)

\* a dropped record that ends the pass
SkipAborts == [res |-> "panic"]

Skip == [res |-> "skip"]
Panic == [res |-> "panic"]

GenomeAlignment(line, shape) ==
    [te_name |-> line.qname[2],
     old_m |-> line.qname[3],
     old_s |-> line.qname[4],
     is_sm_te |-> line.qname[5] = "SM",
     is_start |-> line.qname[6] = "start",
     new_plus |-> is_plus(line.flag),
     chrom |-> line.rname,
     split_read_genome |-> shape]

\* genome_alignment.rs: GenomeAlignment::create (bin sx)
create_sx(line, chroms) ==
    LET is_sm_te == line.qname[5] = "SM"
        is_start == line.qname[6] = "start"
        split_read(shape) ==
            IF shape = PanicShape THEN Panic
            ELSE IF shape = NoShape THEN Skip
            ELSE [res |-> "ok", chrom |-> line.rname, al |-> GenomeAlignment(line, shape)]
    IN  IF ~is_mapped(line.flag) THEN Skip
        ELSE IF is_sm_te # is_start THEN Panic
        ELSE IF ~validate_chrom(line.rname, chroms) THEN Skip
        ELSE CHOOSE r \in {split_read(shape) : shape \in
                 {SplitReadGenome_parse(line.cigar, line.qname[3], line.qname[4],
                                        is_start, is_plus(line.flag), line.pos)}} : TRUE

\* preprocess_alignments.rs: GenomeAlignment::create (bin stanex)
create_stanex(line, chroms) ==
    LET is_start == line.qname[6] = "start"
        split_read_result(shape) ==
            IF shape = PanicShape THEN Panic
            ELSE IF shape = NoShape THEN Skip
            ELSE [res |-> "ok", chrom |-> line.rname, al |-> GenomeAlignment(line, shape)]
    IN  IF ~is_mapped(line.flag) THEN Skip
        ELSE IF ~validate_chrom(line.rname, chroms) THEN Skip
        ELSE CHOOSE r \in {split_read_result(shape) : shape \in
                 {SplitReadGenome_parse(line.cigar, line.qname[3], line.qname[4],
                                        is_start, is_plus(line.flag), line.pos)}} : TRUE

GenomeAlignment_create(b, line, chroms) ==
    IF b = "sx" THEN create_sx(line, chroms) ELSE create_stanex(line, chroms)

get_boundary_nt(al) ==
    CASE al.split_read_genome.kind = "MS" -> get_last_m(al.split_read_genome)
      [] al.split_read_genome.kind = "SM" -> get_first_m(al.split_read_genome)
      [] OTHER -> get_boundary_old_m(al.split_read_genome)

\* a side that does not look at the strand
upstream_by_start(al) ==
    CASE al.split_read_genome.kind = "MS" -> TRUE
      [] al.split_read_genome.kind = "SM" -> FALSE
      [] OTHER -> al.is_start

upstream(al) ==
    CASE al.split_read_genome.kind = "MS" -> TRUE
      [] al.split_read_genome.kind = "SM" -> FALSE
      [] OTHER -> ~(al.is_start # al.new_plus)

(***************************************************************************)
(* impl Ord for GenomeAlignment: Reverse((te_name, boundary)), so that the *)
(* max-heap yields the least (te_name, boundary) first.                    *)
(***************************************************************************)
KeyLess(x, y) ==
    \/ x.te_name < y.te_name
    \/ x.te_name = y.te_name /\ get_boundary_nt(x) < get_boundary_nt(y)

\* x <= y in the order of cmp
cmp_le(x, y) == ~KeyLess(x, y)
\* x < y in the order of cmp
cmp_lt(x, y) == KeyLess(y, x)

(***************************************************************************)
(* std::collections::BinaryHeap as the two binaries use it: push           *)
(* (stanex), From<Vec> (sx) and pop.  The heap is its backing array; the   *)
(* position p of the Rust code is index p + 1 here.                        *)
(***************************************************************************)
RECURSIVE sift_up(_, _, _, _)
sift_up(data, start, pos, elem) ==
    LET parent == (pos - 1) \div 2
    IN  IF pos > start /\ ~cmp_le(elem, data[parent + 1])
        THEN sift_up([data EXCEPT ![pos + 1] = data[parent + 1]], start, parent, elem)
        ELSE [data EXCEPT ![pos + 1] = elem]

heap_push(data, x) == sift_up(Append(data, x), 0, Len(data), x)

RECURSIVE heap_push_all(_, _)
heap_push_all(data, xs) ==
    IF xs = <<>> THEN data ELSE heap_push_all(heap_push(data, Head(xs)), Tail(xs))

\* the greater child of pos (the right one on a tie), 0-based
GreaterChild(data, pos, end) ==
    LET child == 2 * pos + 1
    IN  IF child + 1 < end /\ cmp_le(data[child + 1], data[child + 2])
        THEN child + 1 ELSE child

RECURSIVE sift_down_to_bottom_loop(_, _, _)
sift_down_to_bottom_loop(data, pos, elem) ==
    LET end == Len(data)
        child == GreaterChild(data, pos, end)
    IN  IF 2 * pos + 1 < end
        THEN sift_down_to_bottom_loop([data EXCEPT ![pos + 1] = data[child + 1]],
                                      child, elem)
        ELSE <<data, pos>>

sift_down_to_bottom(data, start) ==
    LET r == sift_down_to_bottom_loop(data, start, data[start + 1])
    IN  sift_up(r[1], start, r[2], data[start + 1])

RECURSIVE sift_down(_, _, _)
sift_down(data, pos, elem) ==
    LET end == Len(data)
        child == GreaterChild(data, pos, end)
    IN  IF 2 * pos + 1 < end /\ cmp_lt(elem, data[child + 1])
        THEN sift_down([data EXCEPT ![pos + 1] = data[child + 1]], child, elem)
        ELSE [data EXCEPT ![pos + 1] = elem]

RECURSIVE rebuild(_, _)
rebuild(data, n) ==
    IF n = 0 THEN data
    ELSE rebuild(sift_down(data, n - 1, data[n]), n - 1)

\* BinaryHeap::from(vec)
heap_from(vec) == rebuild(vec, Len(vec) \div 2)

\* BinaryHeap::pop on a non-empty heap: <<item, rest>>
heap_pop(data) ==
    LET n == Len(data)
        last == data[n]
    IN  IF n = 1 THEN <<last, <<>> >>
        ELSE <<data[1],
               sift_down_to_bottom([SubSeq(data, 1, n - 1) EXCEPT ![1] = last], 0)>>

\* while let Some(alignment) = heap.pop(): the alignments in pop order
RECURSIVE heap_drain(_)
heap_drain(data) ==
    IF data = <<>> THEN <<>>
    ELSE LET r == heap_pop(data) IN <<r[1]>> \o heap_drain(r[2])

(***************************************************************************)
(* make_3d_vector: the popped alignments grouped by transposon name, then  *)
(* by boundary position.                                                   *)
(***************************************************************************)
AppendLast(s, x) == [s EXCEPT ![Len(s)] = Append(@, x)]

RECURSIVE make_3d_loop(_, _, _, _)
make_3d_loop(popped, result, cur_transposon_name, cur_pos) ==
    IF popped = <<>> THEN [res |-> "ok", v |-> result]
    ELSE LET alignment == Head(popped)
             new_pos == get_boundary_nt(alignment)
         IN  IF alignment.te_name = cur_transposon_name
             THEN IF result = <<>> THEN Panic   \* result.last_mut().unwrap()
                  ELSE IF new_pos = cur_pos
                  THEN make_3d_loop(Tail(popped),
                                    [result EXCEPT ![Len(result)] = AppendLast(@, alignment)],
                                    cur_transposon_name, cur_pos)
                  ELSE make_3d_loop(Tail(popped),
                                    AppendLast(result, <<alignment>>),
                                    cur_transposon_name, new_pos)
             ELSE make_3d_loop(Tail(popped), Append(result, << <<alignment>> >>),
                               alignment.te_name, new_pos)

\* the call: the vector, or the panic of unwrap() on an empty result
make_3d_result(heap) == make_3d_loop(heap_drain(heap), <<>>, 0, U64_MAX)

\* the vector returned
make_3d_vector(heap) == make_3d_result(heap).v

(***************************************************************************)
(* The insertion accumulators (NonRefTE, RefTE) and the traversal.         *)
(***************************************************************************)
\* std::u64::MAX / 2
Sentinel == U64_MAX \div 2

Insertion(name, chrom, up, down, orientation, n_up, n_down) ==
    [name |-> name, chrom |-> chrom, upstream_pos |-> up, downstream_pos |-> down,
     orientation |-> orientation, num_upstream_reads |-> n_up,
     num_downstream_reads |-> n_down]

\* a start with no read counted
UpstreamStartAtZero(al, chrom, orientation) ==
    Insertion(al.te_name, chrom, get_boundary_nt(al), Sentinel, orientation, 0, 0)

\* an upstream start that takes the read for both ends
UpstreamStartBothEnds(al, chrom, orientation) ==
    Insertion(al.te_name, chrom, get_boundary_nt(al), get_boundary_nt(al), orientation, 1, 0)

\* a start that takes the read for both ends
DownstreamStartBothEnds(al, chrom, orientation) ==
    Insertion(al.te_name, chrom, get_boundary_nt(al), get_boundary_nt(al), orientation, 0, 1)

UpstreamStart(al, chrom, orientation) ==
    Insertion(al.te_name, chrom, get_boundary_nt(al), Sentinel, orientation, 1, 0)
DownstreamStart(al, chrom, orientation) ==
    Insertion(al.te_name, chrom, Sentinel, get_boundary_nt(al), orientation, 0, 1)

\* an upstream read that is not counted (C3 fails for it)
IncUpLost(tes) == tes

IncUp(tes) == [tes EXCEPT ![Len(tes)].num_upstream_reads = @ + 1]

\* a downstream read counted twice
IncDownTwice(tes) == [tes EXCEPT ![Len(tes)].num_downstream_reads = @ + 2]

\* a downstream read counted in the first accumulator of the pass
IncDownFirst(tes) == [tes EXCEPT ![1].num_downstream_reads = @ + 1]

IncDown(tes) == [tes EXCEPT ![Len(tes)].num_downstream_reads = @ + 1]

\* get_non_ref_tes: the body of the innermost loop, for one alignment
non_ref_step(tes, alignment, min_tsd_length, max_tsd_length, chrom_name) ==
    LET position == get_boundary_nt(alignment)
        insertion == tes[Len(tes)]
    IN  IF upstream(alignment)
        THEN LET orientation == IF alignment.is_sm_te THEN "PlusPlus" ELSE "PlusMinus"
                 start == UpstreamStart(alignment, chrom_name, orientation)
             IN  IF tes = <<>> THEN <<start>>
                 ELSE IF orientation = insertion.orientation
                 THEN IF position = insertion.upstream_pos THEN IncUp(tes)
                      ELSE IF /\ position >= insertion.downstream_pos + min_tsd_length
                              /\ position <= insertion.downstream_pos + max_tsd_length
                      THEN IncUp([tes EXCEPT ![Len(tes)].upstream_pos = position])
                      ELSE Append(tes, start)
                 ELSE Append(tes, start)
        ELSE LET orientation == IF alignment.is_sm_te THEN "PlusMinus" ELSE "PlusPlus"
                 start == DownstreamStart(alignment, chrom_name, orientation)
             IN  IF tes = <<>> THEN <<start>>
                 ELSE IF orientation = insertion.orientation
                 THEN IF position = insertion.downstream_pos THEN IncDown(tes)
                      ELSE Append(tes, start)
                 ELSE Append(tes, start)

\* the product rounded to the nearest whole number
ScaledNearest(fraction, length) ==
    (2 * fraction[1] * length + fraction[2]) \div (2 * fraction[2])

\* the product rounded up
ScaledUp(fraction, length) == (fraction[1] * length + fraction[2] - 1) \div fraction[2]

\* (fraction * length) as u64: the product truncated toward zero
Scaled(fraction, length) == (fraction[1] * length) \div fraction[2]

\* get_ref_tes: the body of the innermost loop, for one alignment
ref_step(tes, alignment, min_te_length, max_te_length, cur_te_length, chrom_name) ==
    LET position == get_boundary_nt(alignment)
        orientation == IF alignment.new_plus THEN "PlusPlus" ELSE "PlusMinus"
        insertion == tes[Len(tes)]
    IN  IF upstream(alignment)
        THEN LET start == UpstreamStart(alignment, chrom_name, orientation)
             IN  IF tes = <<>> THEN <<start>>
                 ELSE IF orientation = insertion.orientation
                 THEN IF position = insertion.upstream_pos THEN IncUp(tes)
                      ELSE Append(tes, start)
                 ELSE Append(tes, start)
        ELSE LET start == DownstreamStart(alignment, chrom_name, orientation)
             IN  IF tes = <<>> THEN <<start>>
                 ELSE IF orientation = insertion.orientation
                 THEN IF position = insertion.downstream_pos THEN IncDown(tes)
                      ELSE IF /\ position >= insertion.upstream_pos
                                             + Scaled(min_te_length, cur_te_length)
                              /\ position <= insertion.upstream_pos
                                             + Scaled(max_te_length, cur_te_length)
                      THEN IncDown([tes EXCEPT ![Len(tes)].downstream_pos = position])
                      ELSE Append(tes, start)
                 ELSE Append(tes, start)

\* the reads of a 3D vector in traversal order
RECURSIVE Flatten(_)
Flatten(ss) == IF ss = <<>> THEN <<>> ELSE Head(ss) \o Flatten(Tail(ss))

RECURSIVE non_ref_loop(_, _, _, _, _)
non_ref_loop(tes, reads, min_tsd_length, max_tsd_length, chrom_name) ==
    IF reads = <<>> THEN tes
    ELSE non_ref_loop(non_ref_step(tes, Head(reads), min_tsd_length, max_tsd_length,
                                   chrom_name),
                      Tail(reads), min_tsd_length, max_tsd_length, chrom_name)

RECURSIVE ref_loop(_, _, _, _, _, _)
ref_loop(tes, reads, min_te_length, max_te_length, cur_te_length, chrom_name) ==
    IF reads = <<>> THEN tes
    ELSE ref_loop(ref_step(tes, Head(reads), min_te_length, max_te_length,
                           cur_te_length, chrom_name),
                  Tail(reads), min_te_length, max_te_length, cur_te_length, chrom_name)

\* the outer loop of get_ref_tes: one transposon group at a time
RECURSIVE ref_groups(_, _, _, _, _, _)
ref_groups(tes, groups, min_te_length, max_te_length, all_te_lengths, chrom_name) ==
    IF groups = <<>> THEN tes
    ELSE LET same_transposon_name == Head(groups)
             cur_te_length == all_te_lengths[same_transposon_name[1][1].te_name]
         IN  ref_groups(ref_loop(tes, Flatten(same_transposon_name), min_te_length,
                                 max_te_length, cur_te_length, chrom_name),
                        Tail(groups), min_te_length, max_te_length, all_te_lengths,
                        chrom_name)

\* a filter that asks for upstream reads only
KeepInsertionUpstream(insertion) == insertion.num_upstream_reads > 0

\* a filter that asks for support on the downstream side only
KeepInsertionDownstream(insertion) == insertion.num_downstream_reads > 0

\* a filter that keeps an insertion with reads on one end (C1 fails for it)
KeepInsertionOneEnd(insertion) ==
    insertion.num_upstream_reads > 0 \/ insertion.num_downstream_reads > 0

\* "if the insertion does not have reads on both ends, discard it"
KeepInsertion(insertion) ==
    insertion.num_upstream_reads > 0 /\ insertion.num_downstream_reads > 0

RECURSIVE filter_tes(_)
filter_tes(tes) ==
    IF tes = <<>> THEN <<>>
    ELSE IF KeepInsertion(Head(tes)) THEN <<Head(tes)>> \o filter_tes(Tail(tes))
    ELSE filter_tes(Tail(tes))

\* no sort at all (C2 fails for it)
no_sort(tes) == tes

\* Vec::sort_by on upstream_pos (a stable sort)
RECURSIVE InsertSorted(_, _)
InsertSorted(sorted, x) ==
    IF sorted = <<>> THEN <<x>>
    ELSE IF Head(sorted).upstream_pos <= x.upstream_pos
    THEN <<Head(sorted)>> \o InsertSorted(Tail(sorted), x)
    ELSE <<x>> \o sorted

RECURSIVE sort_by_upstream_pos(_)
sort_by_upstream_pos(tes) ==
    IF tes = <<>> THEN <<>>
    ELSE InsertSorted(sort_by_upstream_pos(SubSeq(tes, 1, Len(tes) - 1)), tes[Len(tes)])

\* the accumulators of get_non_ref_tes at end of stream, before the filter
non_ref_accumulators(heap, min_tsd_length, max_tsd_length, chrom_name) ==
    non_ref_loop(<<>>, Flatten(Flatten(make_3d_vector(heap))),
                 min_tsd_length, max_tsd_length, chrom_name)

get_non_ref_tes(heap, min_tsd_length, max_tsd_length, chrom_name) ==
    sort_by_upstream_pos(filter_tes(
        non_ref_accumulators(heap, min_tsd_length, max_tsd_length, chrom_name)))

ref_accumulators(heap, min_te_length, max_te_length, all_te_lengths, chrom_name) ==
    ref_groups(<<>>, make_3d_vector(heap),
               min_te_length, max_te_length, all_te_lengths, chrom_name)

get_ref_tes(heap, min_te_length, max_te_length, all_te_lengths, chrom_name) ==
    sort_by_upstream_pos(filter_tes(
        ref_accumulators(heap, min_te_length, max_te_length, all_te_lengths, chrom_name)))

(***************************************************************************)
(* select_alignments: read the genome-aligned stream into the pools, then  *)
(* assemble and write chromosome by chromosome.                            *)
(***************************************************************************)
EmptyPools(chroms) ==
    [c \in {chroms[i] : i \in 1..Len(chroms)} |-> [nonref |-> <<>>, ref |-> <<>>]]

\* every read in the non-reference pool
PoolOfNonRef(al) == "nonref"

PoolOf(al) == IF al.split_read_genome.kind = "M" THEN "ref" ELSE "nonref"

\* sx collects a Vec per pool and heapifies at the end; stanex pushes on a heap
PoolPush(b, pool, al) == IF b = "sx" THEN Append(pool, al) ELSE heap_push(pool, al)
PoolSort(b, pool) == IF b = "sx" THEN heap_from(pool) ELSE pool

\* impl Display for NonRefTE / RefTE: the row of an insertion
OrientationString(o) == IF o = "PlusPlus" THEN "+/+" ELSE "+/-"

NonRefRow(t) ==
    [chrom |-> t.chrom, start_pos |-> t.downstream_pos, end_pos |-> t.upstream_pos,
     orientation |-> OrientationString(t.orientation), name |-> t.name,
     up |-> t.num_upstream_reads, down |-> t.num_downstream_reads,
     reference |-> "non-reference"]

RefRow(t) ==
    [chrom |-> t.chrom, start_pos |-> t.upstream_pos, end_pos |-> t.downstream_pos,
     orientation |-> OrientationString(t.orientation), name |-> t.name,
     up |-> t.num_upstream_reads, down |-> t.num_downstream_reads,
     reference |-> "reference"]

ChromRows(o) ==
    [i \in 1..Len(o.non_reference) |-> NonRefRow(o.non_reference[i])]
        \o [i \in 1..Len(o.reference) |-> RefRow(o.reference[i])]

RECURSIVE AllRows(_)
AllRows(out) == IF out = <<>> THEN <<>> ELSE ChromRows(Head(out)) \o AllRows(Tail(out))

\* one iteration of the reading loop: build the alignment and pool it
ReadGenomeLine ==
    /\ apc = "reading"
    /\ line_no < Len(genome_file)
    /\ \E r \in {GenomeAlignment_create(bin, genome_file[line_no + 1], params.chroms)} :
           /\ line_no' = line_no + 1
           /\ apc' = IF r.res = "panic" THEN "panicked" ELSE "reading"
           /\ IF r.res = "ok"
              THEN /\ pools' = [pools EXCEPT ![r.chrom][PoolOf(r.al)] =
                                    PoolPush(bin, @, r.al)]
                   /\ arrived' = [arrived EXCEPT ![r.chrom][PoolOf(r.al)] =
                                    Append(@, r.al)]
              ELSE UNCHANGED <<pools, arrived>>
    /\ UNCHANGED <<bin, call_vars, genome_file, chrom_no, output, written, params, sel_vars>>

\* end of the stream: the pools become heaps
FinishReading ==
    /\ apc = "reading"
    /\ line_no = Len(genome_file)
    /\ pools' = [c \in DOMAIN pools |->
                    [nonref |-> PoolSort(bin, pools[c].nonref),
                     ref |-> PoolSort(bin, pools[c].ref)]]
    /\ apc' = "assembling"
    /\ UNCHANGED <<bin, call_vars, genome_file, line_no, arrived, chrom_no, output, written,
                   params, sel_vars>>

\* one iteration of "for chrom in chroms"
AssembleChrom ==
    /\ apc = "assembling"
    /\ chrom_no < Len(params.chroms)
    /\ LET chrom == params.chroms[chrom_no + 1]
           o == [non_reference |->
                     get_non_ref_tes(pools[chrom].nonref, params.min_tsd_length,
                                     params.max_tsd_length, chrom),
                 reference |->
                     get_ref_tes(pools[chrom].ref, params.min_te_length,
                                 params.max_te_length, params.all_te_lengths, chrom)]
       IN  /\ output' = Append(output, o)
           /\ pools' = [pools EXCEPT ![chrom] = [nonref |-> <<>>, ref |-> <<>>]]
           /\ written' = IF bin = "stanex" THEN written \o ChromRows(o) ELSE written
    /\ chrom_no' = chrom_no + 1
    /\ apc' = IF chrom_no + 1 < Len(params.chroms) THEN "assembling"
              ELSE IF bin = "sx" THEN "writing" ELSE "done"
    /\ UNCHANGED <<bin, call_vars, genome_file, line_no, arrived, params, sel_vars>>

\* sx writes all rows after the loop
WriteOutput ==
    /\ apc = "writing"
    /\ written' = AllRows(output)
    /\ apc' = "done"
    /\ UNCHANGED <<bin, call_vars, genome_file, line_no, pools, arrived, chrom_no, output,
                   params, sel_vars>>

(***************************************************************************)
(* The TE-side builder.  A record of the TE-aligned stream is [qname,      *)
(* flag, rname, pos, cigar, seq].                                          *)
(***************************************************************************)
SplitReadTE_parse(cigar, pos) ==
    IF SM_REGEX(cigar)
    THEN SMOf(cigar, pos)
    ELSE IF MS_REGEX(cigar)
    THEN MSOf(cigar, pos)
    ELSE NoShape

TeAlignment(rec, shape) ==
    [qname |-> rec.qname, rname |-> rec.rname, m_size |-> shape.m, s_size |-> shape.s,
     is_sm |-> shape.kind = "SM", is_start |-> shape.kind = "SM", seq |-> rec.seq]

\* a test that looks at the shape only
AnyPosition(shape, transposon_length) == shape.kind \in {"SM", "MS"}

\* a test that holds the match run of an MS read against the length
RunLengthIsLength(shape, transposon_length) ==
    \/ shape.kind = "SM" /\ shape.pos = 1
    \/ shape.kind = "MS" /\ shape.m = transposon_length

\* the boundary test shared by both binaries
AtBoundary(shape, transposon_length) ==
    \/ shape.kind = "SM" /\ get_first_m(shape) = 1
    \/ shape.kind = "MS" /\ get_last_m(shape) = transposon_length

\* te_alignment.rs: TeAlignment::create and validate_cigar_string (bin sx);
\* every failure, the unknown transposon included, is an Err
te_create_sx(rec, transposon_lengths) ==
    LET validate_cigar_string(shape) ==
            IF shape = PanicShape THEN Panic
            ELSE IF rec.rname \notin DOMAIN transposon_lengths THEN Skip
            ELSE IF shape = NoShape THEN Skip
            ELSE IF AtBoundary(shape, transposon_lengths[rec.rname])
            THEN [res |-> "ok", al |-> TeAlignment(rec, shape)]
            ELSE Skip
    IN  IF ~is_mapped(rec.flag) THEN Skip
        ELSE CHOOSE r \in {validate_cigar_string(shape) : shape \in
                 {SplitReadTE_parse(rec.cigar, rec.pos)}} : TRUE

\* preprocess_select_reads.rs: TeAlignment::create (bin stanex);
\* the unknown transposon panics
te_create_stanex(rec, transposons_) ==
    LET split_read(shape) ==
            IF shape = PanicShape THEN Panic
            ELSE IF shape = NoShape THEN Skip
            ELSE IF AtBoundary(shape, transposons_[rec.rname])
            THEN [res |-> "ok", al |-> TeAlignment(rec, shape)]
            ELSE Skip
    IN  IF ~is_mapped(rec.flag) THEN Skip
        ELSE IF rec.rname \notin DOMAIN transposons_ THEN Panic
        ELSE CHOOSE r \in {split_read(shape) : shape \in
                 {SplitReadTE_parse(rec.cigar, rec.pos)}} : TRUE

TeAlignment_create(b, rec, table) ==
    IF b = "sx" THEN te_create_sx(rec, table) ELSE te_create_stanex(rec, table)

\* impl Display for TeAlignment: the header line and the sequence line
HeaderLine(al) ==
    <<">", al.qname, al.rname, al.m_size, al.s_size,
      IF al.is_sm THEN "SM" ELSE "MS", IF al.is_start THEN "start" ELSE "end">>
SeqLine(al) == <<al.seq>>

(***************************************************************************)
(* select_reads: the main thread reads the header block into the length    *)
(* table while it holds the reader mutex, then starts the workers and      *)
(* joins the pool.  Each worker loops: lock the reader, read a line,       *)
(* unlock; bump the line counter under its mutex; classify; on success     *)
(* lock the writer, write the record, unlock.                              *)
(***************************************************************************)
\* the holders of a mutex guard
NoHolder == <<"free">>
MainThread == <<"main">>
WorkerThread(w) == <<"worker", w>>

\* a mutex that is locked by everyone at once
NeverHeld(lock) == TRUE

\* Mutex::lock returns when no one holds the guard
IsFree(lock) == lock = NoHolder

WorkerIds == {1, 2}

\* "let num_workers = if num_threads <= 0 { 8 } else { num_threads }"
DefaultWorkers == 8
NumWorkers(num_threads) == IF num_threads <= 0 THEN DefaultWorkers ELSE num_threads

\* the header lines, then the terminating @PG line, then the records
HeaderLen == Len(te_file.header) + 1
AtEof == reader_pos = HeaderLen + Len(te_file.records)
Spawned == {w \in WorkerIds : wpc[w] # "idle"}
Running == {w \in Spawned : wpc[w] \notin {"done", "panicked"}}

\* create_transposon / read_te_into_map
InsertTransposon(table, entry) == (entry.name :> entry.length) @@ table

RECURSIVE ReadAllTes(_, _)
ReadAllTes(table, header) ==
    IF header = <<>> THEN table
    ELSE ReadAllTes(InsertTransposon(table, Head(header)), Tail(header))

\* workers started while the header is still being read
MayStartWorkersEarly == spc \in {"header", "spawn"}

\* workers started while the main thread still has the reader guard
MayStartWorkersHeld == spc \in {"reread", "spawn"}

\* the main thread may start the workers: the header loop has seen the @PG
\* line and the reader mutex has been dropped
MayStartWorkers == spc = "spawn" /\ IsFree(reader_lock)

\* one iteration of the header loop
ReadHeaderLine ==
    /\ spc = "header"
    /\ reader_lock = MainThread
    /\ reader_pos < HeaderLen
    /\ reader_pos' = reader_pos + 1
    /\ IF bin = "stanex" THEN line_num' = line_num + 1 ELSE UNCHANGED line_num
    /\ IF reader_pos + 1 = HeaderLen
       THEN \* the @PG line: break; stanex then drops the guards, sx reads
            \* the header a second time first
            /\ reader_lock' = IF bin = "stanex" THEN NoHolder ELSE reader_lock
            /\ counter_lock' = NoHolder
            /\ spc' = IF bin = "stanex" THEN "spawn" ELSE "reread"
            /\ UNCHANGED transposons
       ELSE /\ transposons' = InsertTransposon(transposons, te_file.header[reader_pos + 1])
            /\ UNCHANGED <<reader_lock, counter_lock, spc>>
    /\ UNCHANGED <<bin, call_vars, asm_vars, te_file, num_workers, writer_lock, wpc, wrec,
                   classified, accepted, selected, fatal_seen>>

\* pool.execute: one more worker starts its loop
StartWorker ==
    /\ MayStartWorkers
    /\ \E w \in WorkerIds :
          /\ w = Cardinality(Spawned) + 1
          /\ w <= num_workers
          /\ wpc' = [wpc EXCEPT ![w] = "lock_reader"]
          /\ spc' = IF w = num_workers THEN "join" ELSE "spawn"
    /\ UNCHANGED <<bin, call_vars, asm_vars, te_file, num_workers, reader_pos, reader_lock,
                   writer_lock, counter_lock, line_num, transposons, wrec, classified,
                   accepted, selected, fatal_seen>>

\* te_aligned_reader_arc_clone.lock()
LockReader(w) ==
    /\ wpc[w] = "lock_reader"
    /\ IsFree(reader_lock)
    /\ reader_lock' = WorkerThread(w)
    /\ wpc' = [wpc EXCEPT ![w] = "read"]
    /\ UNCHANGED <<bin, call_vars, asm_vars, te_file, num_workers, reader_pos, writer_lock,
                   counter_lock, line_num, transposons, wrec, classified, accepted,
                   selected, fatal_seen, spc>>

\* a worker that keeps the reader guard when it stops
AfterEofHolding(w) == [pc |-> "done", lock |-> WorkerThread(w)]

\* the worker's state after read_line returned Ok(0): "break", which drops
\* the guard
AfterEof(w) == [pc |-> "done", lock |-> NoHolder]

\* a worker that goes on with the reader guard in its hands
AfterLineHolding(w) == [pc |-> "count", lock |-> WorkerThread(w)]

\* the worker's state after read_line returned a line:
\* "std::mem::drop(te_aligned_reader_child)"
AfterLine(w) == [pc |-> "count", lock |-> NoHolder]

\* read_line under the guard; Ok(0) breaks, otherwise the guard is dropped
ReadLine(w) ==
    /\ wpc[w] = "read"
    /\ IF AtEof
       THEN /\ wpc' = [wpc EXCEPT ![w] = AfterEof(w).pc]
            /\ reader_lock' = AfterEof(w).lock
            /\ UNCHANGED <<reader_pos, wrec>>
       ELSE /\ reader_pos' = reader_pos + 1
            /\ wrec' = [wrec EXCEPT ![w] = reader_pos + 1 - HeaderLen]
            /\ reader_lock' = AfterLine(w).lock
            /\ wpc' = [wpc EXCEPT ![w] = AfterLine(w).pc]
    /\ UNCHANGED <<bin, call_vars, asm_vars, te_file, num_workers, writer_lock, counter_lock,
                   line_num, transposons, classified, accepted, selected, fatal_seen,
                   spc>>

\* lock the line counter, add one, unlock
CountLine(w) ==
    /\ wpc[w] = "count"
    /\ IsFree(counter_lock)
    /\ line_num' = line_num + 1
    /\ wpc' = [wpc EXCEPT ![w] = "classify"]
    /\ UNCHANGED <<bin, call_vars, asm_vars, te_file, num_workers, reader_pos, reader_lock,
                   writer_lock, counter_lock, transposons, wrec, classified, accepted,
                   selected, fatal_seen, spc>>

\* a worker that builds the same record again after a skip
AfterBuildAgain(res) ==
    CASE res = "ok" -> "lock_writer"
      [] res = "skip" -> "classify"
      [] OTHER -> "panicked"

\* what the worker does with the result of the TE-side build
AfterBuild(res) ==
    CASE res = "ok" -> "lock_writer"
      [] res = "skip" -> "lock_reader"
      [] OTHER -> "panicked"

\* TeAlignment::create on the record the worker holds, under no lock
Classify(w) ==
    /\ wpc[w] = "classify"
    /\ \E rec \in {te_file.records[wrec[w]]} :
       \E r \in {TeAlignment_create(bin, rec, transposons)} :
           /\ classified' = [classified EXCEPT ![wrec[w]] = @ + 1]
           /\ accepted' = IF r.res = "ok" THEN accepted \cup {wrec[w]} ELSE accepted
           /\ fatal_seen' = (fatal_seen \/ (is_mapped(rec.flag)
                                            /\ rec.rname \notin DOMAIN transposons))
           /\ wpc' = [wpc EXCEPT ![w] = AfterBuild(r.res)]
    /\ UNCHANGED <<bin, call_vars, asm_vars, te_file, num_workers, reader_pos, reader_lock,
                   writer_lock, counter_lock, line_num, transposons, wrec, selected,
                   spc>>
\* bin sx: the reader is reopened and read_all_tes_into_map runs again for
\* the table that is returned; then the reader guard is dropped
RereadHeader ==
    /\ spc = "reread"
    /\ reader_lock = MainThread
    /\ reader_pos' = HeaderLen
    /\ reader_lock' = NoHolder
    /\ spc' = "spawn"
    /\ UNCHANGED <<bin, call_vars, asm_vars, te_file, num_workers, writer_lock, counter_lock,
                   line_num, transposons, wpc, wrec, classified, accepted, selected,
                   fatal_seen>>

\* an output line remembers the record it was written for
OutLine(idx, kind, text) == [rec |-> idx, kind |-> kind, text |-> text]

\* selected_reads_writer_arc_clone.lock(), and the first line of the record
\* goes into the writer
LockWriter(w) ==
    /\ wpc[w] = "lock_writer"
    /\ IsFree(writer_lock)
    /\ writer_lock' = WorkerThread(w)
    /\ \E al \in {TeAlignment_create(bin, te_file.records[wrec[w]], transposons).al} :
          selected' = Append(selected, OutLine(wrec[w], "header", HeaderLine(al)))
    /\ wpc' = [wpc EXCEPT ![w] = "write_seq"]
    /\ UNCHANGED <<bin, call_vars, asm_vars, te_file, num_workers, reader_pos, reader_lock,
                   counter_lock, line_num, transposons, wrec, classified, accepted,
                   fatal_seen, spc>>

\* the second line of the record goes into the writer; the guard is dropped
WriteSeq(w) ==
    /\ wpc[w] = "write_seq"
    /\ \E al \in {TeAlignment_create(bin, te_file.records[wrec[w]], transposons).al} :
          selected' = Append(selected, OutLine(wrec[w], "seq", SeqLine(al)))
    /\ writer_lock' = NoHolder
    /\ wpc' = [wpc EXCEPT ![w] = "lock_reader"]
    /\ UNCHANGED <<bin, call_vars, asm_vars, te_file, num_workers, reader_pos, reader_lock,
                   counter_lock, line_num, transposons, wrec, classified, accepted,
                   fatal_seen, spc>>

\* pool.join() returns once no job is active; a worker that panicked is not
\* active any more
Join ==
    /\ spc = "join"
    /\ Running = {}
    /\ spc' = "returned"
    /\ UNCHANGED <<bin, call_vars, asm_vars, te_file, num_workers, reader_pos, reader_lock,
                   writer_lock, counter_lock, line_num, transposons, wpc, wrec,
                   classified, accepted, selected, fatal_seen>>

Worker(w) ==
    \/ LockReader(w)
    \/ ReadLine(w)
    \/ CountLine(w)
    \/ Classify(w)
    \/ LockWriter(w)
    \/ WriteSeq(w)
(***************************************************************************)
(* The inputs.                                                             *)
(***************************************************************************)
\* a line of the genome-aligned stream; every read has m_size 2, s_size 1
GLine(te_name, kind, side, flag, chrom, pos, cigar) ==
    [qname |-> <<"read", te_name, 2, 1, kind, side>>, flag |-> flag, rname |-> chrom,
     pos |-> pos, cigar |-> cigar]

Cigar_1S2M == <<"1", "S", "2", "M">>
Cigar_2M1S == <<"2", "M", "1", "S">>
Cigar_3M == <<"3", "M">>

GenomeLines ==
    { GLine(1, "MS", "end", 0, "2L", 5, Cigar_1S2M),    \* downstream of 5, +/+
      GLine(1, "SM", "start", 0, "2L", 5, Cigar_2M1S),  \* upstream of 6, +/+
      GLine(1, "MS", "end", 0, "2L", 5, Cigar_2M1S),    \* upstream of 6, +/-
      GLine(2, "MS", "end", 0, "2L", 4, Cigar_1S2M),    \* downstream of 4, +/+
      GLine(2, "SM", "start", 0, "2L", 4, Cigar_2M1S),  \* upstream of 5, +/+
      GLine(1, "SM", "start", 0, "2L", 4, Cigar_3M),    \* reference, upstream of 5
      GLine(1, "MS", "end", 0, "2L", 5, Cigar_3M),      \* reference, downstream of 6
      GLine(1, "SM", "end", 0, "2L", 5, Cigar_2M1S),    \* SM with end, mapped
      GLine(1, "SM", "end", 4, "2L", 5, Cigar_2M1S) }   \* SM with end, unmapped

RECURSIVE SeqsUpTo(_, _)
SeqsUpTo(S, n) ==
    IF n = 0 THEN {<<>>}
    ELSE LET shorter == SeqsUpTo(S, n - 1)
         IN  shorter \cup {Append(q, x) : q \in {r \in shorter : Len(r) = n - 1}, x \in S}

\* the arguments of select_alignments: one chromosome, a target site
\* duplication of 0..1, a transposon span of 0.1..1.5 of its length
Params ==
    [chroms |-> <<"2L">>, min_tsd_length |-> 0, max_tsd_length |-> 1,
     min_te_length |-> <<1, 10>>, max_te_length |-> <<3, 2>>,
     all_te_lengths |-> (1 :> 2) @@ (2 :> 2)]

NoTeFile == [header |-> <<>>, records |-> <<>>]

\* no single function is called
NoInput == [f |-> "none"]
NotRun == [done |-> FALSE]
CallIdle == call_input = NoInput /\ call_result = NotRun

\* select_reads does not run
SelectIdle ==
    /\ te_file = NoTeFile
    /\ num_workers = 0
    /\ reader_pos = 0
    /\ reader_lock = NoHolder
    /\ writer_lock = NoHolder
    /\ counter_lock = NoHolder
    /\ line_num = 0
    /\ transposons = <<>>
    /\ wpc = [w \in WorkerIds |-> "idle"]
    /\ wrec = [w \in WorkerIds |-> 0]
    /\ classified = <<>>
    /\ accepted = {}
    /\ selected = <<>>
    /\ fatal_seen = FALSE
    /\ spc = "idle"

\* select_alignments is entered with a genome-aligned stream
Init ==
    /\ bin \in Bins
    /\ genome_file \in SeqsUpTo(GenomeLines, MaxLines)
    /\ params = Params
    /\ line_no = 0
    /\ pools = EmptyPools(Params.chroms)
    /\ arrived = EmptyPools(Params.chroms)
    /\ chrom_no = 0
    /\ output = <<>>
    /\ written = <<>>
    /\ apc = "reading"
    /\ SelectIdle
    /\ CallIdle

Next ==
    \/ ReadGenomeLine
    \/ FinishReading
    \/ AssembleChrom
    \/ WriteOutput

Spec == Init /\ [][Next]_vars

\* the same program, for the properties of the pools
SpecPools == Init /\ [][Next]_vars

\* a record of the TE-aligned stream
TeRecord(qname, flag, rname, pos, cigar, seq) ==
    [qname |-> qname, flag |-> flag, rname |-> rname, pos |-> pos, cigar |-> cigar,
     seq |-> seq]

Cigar_2S2M == <<"2", "S", "2", "M">>
Cigar_2M2S == <<"2", "M", "2", "S">>

\* the header block names transposons 1 and 2, both of length 4
TeHeader == <<[name |-> 1, length |-> 4], [name |-> 2, length |-> 4]>>

TeRecords ==
    { TeRecord("a", 0, 1, 1, Cigar_2S2M, "ACGT"),   \* SM at the start: accepted
      TeRecord("b", 0, 2, 3, Cigar_2M2S, "GGCC"),   \* MS at the end: accepted
      TeRecord("c", 0, 1, 2, Cigar_2M2S, "TTAA"),   \* MS inside: rejected
      TeRecord("d", 4, 0, 0, <<"*">>, "CCGG"),         \* unmapped: rejected
      TeRecord("e", 0, 3, 1, Cigar_2S2M, "AATT") }  \* transposon 3 is unknown

MaxRecords == 3
ThreadCounts == {1, 2}

\* select_alignments does not run
AssemblyIdle ==
    /\ genome_file = <<>>
    /\ params = Params
    /\ line_no = 0
    /\ pools = EmptyPools(Params.chroms)
    /\ arrived = EmptyPools(Params.chroms)
    /\ chrom_no = 0
    /\ output = <<>>
    /\ written = <<>>
    /\ apc = "idle"

\* select_reads is entered: the reader is open and its guard is taken
InitSelect ==
    /\ bin \in Bins
    /\ te_file \in {[header |-> TeHeader, records |-> r] :
                        r \in SeqsUpTo(TeRecords, MaxRecords)}
    /\ num_workers \in {NumWorkers(n) : n \in ThreadCounts}
    /\ reader_pos = 0
    /\ reader_lock = MainThread
    /\ writer_lock = NoHolder
    /\ counter_lock = IF bin = "stanex" THEN MainThread ELSE NoHolder
    /\ line_num = 0
    /\ transposons = <<>>
    /\ wpc = [w \in WorkerIds |-> "idle"]
    /\ wrec = [w \in WorkerIds |-> 0]
    /\ classified = [i \in 1..Len(te_file.records) |-> 0]
    /\ accepted = {}
    /\ selected = <<>>
    /\ fatal_seen = FALSE
    /\ spc = "header"
    /\ AssemblyIdle
    /\ CallIdle

NextSelect ==
    \/ ReadHeaderLine
    \/ RereadHeader
    \/ StartWorker
    \/ \E w \in WorkerIds : Worker(w)
    \/ Join

SpecSelect == InitSelect /\ [][NextSelect]_vars

\* the scheduler runs every thread that can take a step
SpecSelectFair ==
    /\ SpecSelect
    /\ WF_vars(ReadHeaderLine \/ RereadHeader \/ StartWorker \/ Join)
    /\ \A w \in WorkerIds : WF_vars(Worker(w))

(***************************************************************************)
(* The two passes on inputs that hold every kind of record that is         *)
(* skipped: unmapped, chromosome outside the list, no shape, not anchored  *)
(* at a transposon boundary.                                               *)
(***************************************************************************)
Cigar_1S1M1S == <<"1", "S", "1", "M", "1", "S">>

SkipGenomeLines ==
    { GLine(1, "MS", "end", 0, "2L", 5, Cigar_1S2M),      \* downstream of 5, +/+
      GLine(1, "SM", "start", 0, "2L", 5, Cigar_2M1S),    \* upstream of 6, +/+
      GLine(1, "SM", "start", 0, "2L", 4, Cigar_3M),      \* reference, upstream of 5
      GLine(1, "MS", "end", 0, "2L", 5, Cigar_3M),        \* reference, downstream of 6
      GLine(1, "SM", "start", 4, "2L", 5, Cigar_2M1S),    \* unmapped
      GLine(1, "SM", "start", 0, "Un", 5, Cigar_2M1S),    \* chromosome not in the list
      GLine(1, "SM", "start", 0, "2L", 5, Cigar_1S1M1S) } \* no shape

SkipTeRecords ==
    { TeRecord("a", 0, 1, 1, Cigar_2S2M, "ACGT"),     \* SM at the start: accepted
      TeRecord("b", 0, 2, 3, Cigar_2M2S, "GGCC"),     \* MS at the end: accepted
      TeRecord("c", 0, 1, 2, Cigar_2M2S, "TTAA"),     \* MS inside: not anchored
      TeRecord("d", 4, 0, 0, <<"*">>, "CCGG"),        \* unmapped
      TeRecord("f", 0, 1, 1, Cigar_1S1M1S, "AACC") }  \* no shape

InitSkip ==
    /\ bin \in Bins
    /\ CallIdle
    /\ \/ /\ genome_file \in SeqsUpTo(SkipGenomeLines, MaxLines)
          /\ params = Params
          /\ line_no = 0
          /\ pools = EmptyPools(Params.chroms)
          /\ arrived = EmptyPools(Params.chroms)
          /\ chrom_no = 0
          /\ output = <<>>
          /\ written = <<>>
          /\ apc = "reading"
          /\ SelectIdle
       \/ /\ te_file \in {[header |-> TeHeader, records |-> r] :
                              r \in SeqsUpTo(SkipTeRecords, MaxRecords)}
          /\ num_workers \in {NumWorkers(n) : n \in ThreadCounts}
          /\ reader_pos = 0
          /\ reader_lock = MainThread
          /\ writer_lock = NoHolder
          /\ counter_lock = IF bin = "stanex" THEN MainThread ELSE NoHolder
          /\ line_num = 0
          /\ transposons = <<>>
          /\ wpc = [w \in WorkerIds |-> "idle"]
          /\ wrec = [w \in WorkerIds |-> 0]
          /\ classified = [i \in 1..Len(te_file.records) |-> 0]
          /\ accepted = {}
          /\ selected = <<>>
          /\ fatal_seen = FALSE
          /\ spc = "header"
          /\ AssemblyIdle

NextSkip == Next \/ NextSelect

SpecSkip == InitSkip /\ [][NextSkip]_vars

(***************************************************************************)
(* One step of get_ref_tes: a current insertion with upstream reads meets  *)
(* a downstream-side read.                                                 *)
(***************************************************************************)
MaxPos == 9
MaxTeLength == 5

Orientations == {"PlusPlus", "PlusMinus"}

\* the downstream-side reference reads: pure matches of the end of the
\* transposon on the plus strand, or of its start on the minus strand
DownstreamRefLines ==
    {GLine(1, "MS", "end", 0, "2L", pos, Cigar_3M) : pos \in 1..MaxPos}
        \cup {GLine(1, "SM", "start", 16, "2L", pos, Cigar_3M) : pos \in 1..MaxPos}

\* a current insertion: started by an upstream read at up, with no
\* downstream read yet or with one that was merged inside the window
CurrentRefInsertions(min_te_length, max_te_length, cur_te_length) ==
    {Insertion(1, "2L", up, Sentinel, o, 1, 0) : up \in 1..3, o \in Orientations}
        \cup {Insertion(1, "2L", up, up + j, o, 1, 1) :
                 up \in 1..3, o \in Orientations,
                 j \in Scaled(min_te_length, cur_te_length)
                          ..Scaled(max_te_length, cur_te_length)}

RefStepInputs(lengths) ==
    UNION {
        {[f |-> "ref_step", tes |-> <<cur>>,
          alignment |-> GenomeAlignment_create("sx", line, <<"2L">>).al,
          min_te_length |-> lo, max_te_length |-> <<3, 2>>, cur_te_length |-> len] :
              cur \in CurrentRefInsertions(lo, <<3, 2>>, len), line \in DownstreamRefLines} :
        lo \in {<<1, 10>>, <<1, 2>>}, len \in lengths}

\* the call of the loop body
CallRefStep ==
    /\ call_input.f = "ref_step"
    /\ call_result = NotRun
    /\ call_result' =
           [done |-> TRUE,
            v |-> ref_step(call_input.tes, call_input.alignment, call_input.min_te_length,
                           call_input.max_te_length, call_input.cur_te_length, "2L")]
    /\ UNCHANGED <<bin, asm_vars, sel_vars, call_input>>

InitRefStep ==
    /\ bin \in Bins
    /\ AssemblyIdle
    /\ SelectIdle
    /\ call_input \in RefStepInputs(1..MaxTeLength)
    /\ call_result = NotRun

SpecRefStep == InitRefStep /\ [][CallRefStep]_vars

(***************************************************************************)
(* Coordinate shift between the reference genome and the genome with the   *)
(* reference ilocs removed.                                          *)
(***************************************************************************)
MaxCoord == 4
MaxILocs == 3

ILoc(chrom, upstream_pos, downstream_pos) ==
    [chrom |-> chrom, upstream_pos |-> upstream_pos, downstream_pos |-> downstream_pos]

\* a length that leaves out one end of the span
ILoc_length_open(iloc) == iloc.downstream_pos - iloc.upstream_pos

ILoc_length(iloc) == iloc.downstream_pos - iloc.upstream_pos + 1

contains(iloc, chrom, pos) ==
    pos >= iloc.upstream_pos /\ pos <= iloc.downstream_pos /\ chrom = iloc.chrom

OutsideTransposon(pos) == [kind |-> "OutsideTransposon", pos |-> pos]
WithinTransposon(upstream_pos, downstream_pos) ==
    [kind |-> "WithinTransposon", upstream_pos |-> upstream_pos,
     downstream_pos |-> downstream_pos]

UniversalCoords(chrom, normal_ref, sg_ref) ==
    [ok |-> TRUE, chrom |-> chrom, normal_ref |-> normal_ref, sg_ref |-> sg_ref]

\* an arithmetic overflow aborts a build with overflow checks
OverflowPanic == [ok |-> FALSE]

\* a - b and a + b on u64: a build without overflow checks wraps around
sub_u64(a, b, overflow_checks) ==
    IF a >= b THEN [ok |-> TRUE, v |-> a - b]
    ELSE IF overflow_checks THEN OverflowPanic
    ELSE [ok |-> TRUE, v |-> U64_MAX - (b - a - 1)]

add_u64(a, b, overflow_checks) ==
    IF a <= U64_MAX - b THEN [ok |-> TRUE, v |-> a + b]
    ELSE IF overflow_checks THEN OverflowPanic
    ELSE [ok |-> TRUE, v |-> a - (U64_MAX - b) - 1]

\* the loop of new_from_normal from the i-th transposon on: the
\* within-transposon coordinates, or the total to subtract
RECURSIVE normal_loop(_, _, _, _, _)
normal_loop(chrom, normal_pos, ilocs, i, total_to_subtract) ==
    IF i > Len(ilocs) THEN [within |-> FALSE, total |-> total_to_subtract]
    ELSE IF ilocs[i].chrom # chrom
         THEN normal_loop(chrom, normal_pos, ilocs, i + 1, total_to_subtract)
    ELSE IF ilocs[i].downstream_pos < normal_pos
         THEN normal_loop(chrom, normal_pos, ilocs, i + 1,
                          total_to_subtract + ILoc_length(ilocs[i]))
    ELSE IF ilocs[i].upstream_pos < normal_pos
         THEN [within |-> TRUE,
               sg_ref |-> WithinTransposon(ilocs[i].upstream_pos, ilocs[i].downstream_pos)]
    ELSE [within |-> FALSE, total |-> total_to_subtract]

new_from_normal(chrom, normal_pos, ilocs, overflow_checks) ==
    LET walked == normal_loop(chrom, normal_pos, ilocs, 1, 0)
        sg_pos == sub_u64(normal_pos, walked.total, overflow_checks)
    IN  IF walked.within THEN UniversalCoords(chrom, normal_pos, walked.sg_ref)
        ELSE IF sg_pos.ok THEN UniversalCoords(chrom, normal_pos, OutsideTransposon(sg_pos.v))
        ELSE OverflowPanic

\* the loop of new_from_sg from the i-th transposon on
RECURSIVE sg_loop(_, _, _, _, _)
sg_loop(chrom, ilocs, i, normal_nt_pos, overflow_checks) ==
    IF i > Len(ilocs) \/ ~normal_nt_pos.ok THEN normal_nt_pos
    ELSE IF ilocs[i].chrom # chrom
         THEN sg_loop(chrom, ilocs, i + 1, normal_nt_pos, overflow_checks)
    ELSE IF ilocs[i].downstream_pos < normal_nt_pos.v
         THEN sg_loop(chrom, ilocs, i + 1,
                      add_u64(normal_nt_pos.v, ILoc_length(ilocs[i]), overflow_checks),
                      overflow_checks)
    ELSE normal_nt_pos

new_from_sg(chrom, sg_pos, ilocs, overflow_checks) ==
    LET normal_nt_pos == sg_loop(chrom, ilocs, 1, [ok |-> TRUE, v |-> sg_pos], overflow_checks)
    IN  IF normal_nt_pos.ok
        THEN UniversalCoords(chrom, normal_nt_pos.v, OutsideTransposon(sg_pos))
        ELSE OverflowPanic

\* the spans of the file of insertion locations: on chromosome 2L every
\* span of 1..MaxCoord, on chromosome 2R one span
ILocs(max_coord) ==
    UNION {{ILoc("2L", up, down) : down \in up..max_coord} : up \in 1..max_coord}
        \cup {ILoc("2R", 1, 2)}

ChromRank(chrom) == IF chrom = "2L" THEN 1 ELSE 2

\* sorted first by chromosome, then by upstream position
InFileOrder(a, b) ==
    \/ ChromRank(a.chrom) < ChromRank(b.chrom)
    \/ a.chrom = b.chrom /\ a.upstream_pos <= b.upstream_pos

\* the sorted lists of at most n distinct spans
RECURSIVE SortedILocLists(_, _)
SortedILocLists(n, spans) ==
    IF n = 0 THEN {<<>>}
    ELSE LET shorter == SortedILocLists(n - 1, spans)
         IN  shorter \cup
             UNION {{Append(t, iloc) :
                        iloc \in {x \in spans :
                                     /\ \A i \in 1..Len(t) : t[i] # x
                                     /\ t # <<>> => InFileOrder(t[Len(t)], x)}} :
                    t \in {t \in shorter : Len(t) = n - 1}}

CoordShiftInputs(max_coord, max_ilocs) ==
    {[f |-> "coord_shift", chrom |-> chrom, pos |-> pos, ilocs |-> t,
      overflow_checks |-> checks] :
        chrom \in {"2L", "2R"}, pos \in 1..(max_coord + 2),
        t \in SortedILocLists(max_ilocs, ILocs(max_coord)),
        checks \in BOOLEAN}

\* the call of new_from_normal
CallNewFromNormal ==
    /\ call_input.f = "coord_shift"
    /\ call_result = NotRun
    /\ call_result' =
           [done |-> TRUE, shifted |-> FALSE,
            v |-> new_from_normal(call_input.chrom, call_input.pos, call_input.ilocs,
                                  call_input.overflow_checks)]
    /\ UNCHANGED <<bin, asm_vars, sel_vars, call_input>>

\* the call of new_from_sg on the coordinate new_from_normal returned
CallNewFromSg ==
    /\ call_input.f = "coord_shift"
    /\ call_result # NotRun
    /\ ~call_result.shifted
    /\ call_result.v.ok
    /\ call_result.v.sg_ref.kind = "OutsideTransposon"
    /\ call_result' =
           [done |-> TRUE, shifted |-> TRUE, v |-> call_result.v,
            back |-> new_from_sg(call_input.chrom, call_result.v.sg_ref.pos,
                                 call_input.ilocs, call_input.overflow_checks)]
    /\ UNCHANGED <<bin, asm_vars, sel_vars, call_input>>

InitCoordShift ==
    /\ bin \in Bins
    /\ AssemblyIdle
    /\ SelectIdle
    /\ call_input \in CoordShiftInputs(MaxCoord, MaxILocs)
    /\ call_result = NotRun

NextCoordShift == CallNewFromNormal \/ CallNewFromSg

SpecCoordShift == InitCoordShift /\ [][NextCoordShift]_vars

(***************************************************************************)
(* Classification of one match-description string, and the genome-side     *)
(* builder on a mapped record that carries it.                             *)
(***************************************************************************)
MaxCigarLen == 4
MaxRun == 11

\* the decimal numeral of a number, as the aligner writes a run length
DigitChars == <<"0", "1", "2", "3", "4", "5", "6", "7", "8", "9">>
RECURSIVE to_string(_)
to_string(n) ==
    IF n < 10 THEN <<DigitChars[n + 1]>>
    ELSE Append(to_string(n \div 10), DigitChars[(n % 10) + 1])

\* the string of two runs: a of the first kind, b of the second
TwoRunCigar(a, first, b, second) ==
    to_string(a) \o <<first>> \o to_string(b) \o <<second>>

RunLengths == (1..MaxRun) \cup {144, 150}

\* the strings of two runs, with the numbers they were written from
TwoRuns(lengths) ==
    {[cigar |-> TwoRunCigar(a, form[1], b, form[2]), form |-> form, a |-> a, b |-> b] :
        a \in lengths, b \in lengths,
        form \in {<<"S", "M">>, <<"M", "S">>, <<"H", "M">>, <<"M", "H">>}}

TwoRunInputs == TwoRuns(RunLengths)

\* every string of at most n of these characters
CigarChars == {"1", "2", "S", "M", "H"}
RECURSIVE StringsUpTo(_)
StringsUpTo(n) ==
    IF n = 0 THEN {<<>>}
    ELSE LET shorter == StringsUpTo(n - 1)
         IN  shorter \cup {Append(t, c) : t \in {t \in shorter : Len(t) = n - 1},
                                            c \in CigarChars}

\* a numeral above std::u64::MAX
OverflowNumeral == <<"9", "9", "9", "9", "9", "9", "9", "9", "9", "9">>

OtherCigars ==
    StringsUpTo(MaxCigarLen) \cup
    { Cigar_1S1M1S,
      <<"*">>,
      <<"1", "I", "2", "M">>,
      <<"0", "1", "S", "2", "M">>,
      <<"0", "S", "2", "M">>,
      OverflowNumeral \o <<"S", "1", "M">>,
      <<"1", "M">> \o OverflowNumeral \o <<"S">>,
      OverflowNumeral \o <<"H", "1", "M">>,
      OverflowNumeral \o <<"M">>,
      <<OtherDigit, "S", "1", "M">>,
      <<"1", "M", OtherDigit, "H">>,
      <<OtherDigit, "M">> }

ParseInputs(positions) ==
    {[f |-> "parse", cigar |-> t.cigar, form |-> t.form, a |-> t.a, b |-> t.b, pos |-> pos,
      is_start |-> is_start] :
        t \in TwoRunInputs \cup {[cigar |-> c, form |-> <<>>, a |-> 0, b |-> 0] : c \in OtherCigars},
        pos \in positions, is_start \in BOOLEAN}

\* the mapped genome-aligned record that carries the string, on the plus strand
\* of an allowed chromosome
ParseLine ==
    GLine(1, IF call_input.is_start THEN "SM" ELSE "MS",
          IF call_input.is_start THEN "start" ELSE "end", 0, "2L", call_input.pos,
          call_input.cigar)

\* the call of SplitReadTE::parse
CallParseTE ==
    /\ call_input.f = "parse"
    /\ call_result = NotRun
    /\ call_result' =
           [done |-> TRUE, f |-> "SplitReadTE::parse",
            v |-> SplitReadTE_parse(call_input.cigar, call_input.pos)]
    /\ UNCHANGED <<bin, asm_vars, sel_vars, call_input>>

\* the call of SplitReadGenome::parse
CallParseGenome ==
    /\ call_input.f = "parse"
    /\ call_result = NotRun
    /\ call_result' =
           [done |-> TRUE, f |-> "SplitReadGenome::parse",
            v |-> SplitReadGenome_parse(call_input.cigar, 2, 1, call_input.is_start, TRUE,
                                        call_input.pos)]
    /\ UNCHANGED <<bin, asm_vars, sel_vars, call_input>>

\* the call of GenomeAlignment::create
CallCreateGenome ==
    /\ call_input.f = "parse"
    /\ call_result = NotRun
    /\ call_result' =
           [done |-> TRUE, f |-> "GenomeAlignment::create",
            v |-> GenomeAlignment_create(bin, ParseLine, <<"2L">>)]
    /\ UNCHANGED <<bin, asm_vars, sel_vars, call_input>>

InitParse ==
    /\ bin \in Bins
    /\ AssemblyIdle
    /\ SelectIdle
    /\ call_input \in ParseInputs(1..MaxPos)
    /\ call_result = NotRun

NextParse == CallParseTE \/ CallParseGenome \/ CallCreateGenome

SpecParse == InitParse /\ [][NextParse]_vars

(***************************************************************************)
(* The TE-side builder on one record and one length table.                 *)
(***************************************************************************)
\* the table names transposon 1; the lengths include that of roo, 9092
TeLengths == (1..MaxTeLength) \cup {144, 150, 9092}
TePositions == (1..MaxTeLength) \cup {8949}

TeCigars ==
    TwoRuns({1, 2, 3, 6, 144}) \cup
    {[cigar |-> c, form |-> <<>>, a |-> 0, b |-> 0] :
        c \in {Cigar_3M, Cigar_1S1M1S, <<"*">>, <<"0", "2", "S", "1", "M">>,
                OverflowNumeral \o <<"S", "1", "M">>, <<"1", "M", OtherDigit, "S">>}}

TeCreateInputs(positions, lengths) ==
    {[f |-> "te_create", form |-> t.form, a |-> t.a, b |-> t.b,
      rec |-> TeRecord("r", flag, rname, pos, t.cigar, "ACGT"),
      transposon_lengths |-> (1 :> len)] :
        t \in TeCigars, flag \in {0, 4, 16}, rname \in {1, 3}, pos \in positions,
        len \in lengths}

\* the call of TeAlignment::create
CallCreateTe ==
    /\ call_input.f = "te_create"
    /\ call_result = NotRun
    /\ call_result' =
           [done |-> TRUE,
            v |-> TeAlignment_create(bin, call_input.rec, call_input.transposon_lengths)]
    /\ UNCHANGED <<bin, asm_vars, sel_vars, call_input>>

InitTeCreate ==
    /\ bin \in Bins
    /\ AssemblyIdle
    /\ SelectIdle
    /\ call_input \in TeCreateInputs(TePositions, TeLengths)
    /\ call_result = NotRun

SpecTeCreate == InitTeCreate /\ [][CallCreateTe]_vars

(***************************************************************************)
(* From an accepted TE alignment to the genome alignment of its read: the  *)
(* header line the TE side writes is the name of the genome-aligned record.*)
(***************************************************************************)
MaxSize == 3

\* the accepted TE alignments of transposon 1: SM at the start, MS at the end
SelectedTeAlignments ==
    {[qname |-> "read", rname |-> 1, m_size |-> m, s_size |-> s, is_sm |-> sm,
      is_start |-> sm, seq |-> "ACGT"] :
        m \in 1..MaxSize, s \in 1..MaxSize, sm \in BOOLEAN}

\* mapped records: the two strands, primary and secondary
MappedFlags == {0, 16, 256, 272}

GenomeCigars ==
    {Cigar_3M, <<"1", "2", "M">>, Cigar_1S2M, Cigar_2M1S,
     <<"1", "H", "2", "M">>, <<"2", "M", "1", "H">>}

FromTeInputs(positions) ==
    {[f |-> "from_te", te |-> te, flag |-> flag, pos |-> pos, cigar |-> cigar] :
        te \in SelectedTeAlignments, flag \in MappedFlags, pos \in positions,
        cigar \in GenomeCigars}

\* the genome-aligned record of the read: the aligner copies the header line,
\* without its ">", into the name of the record
RecordOfRead ==
    [qname |-> Tail(HeaderLine(call_input.te)), flag |-> call_input.flag, rname |-> "2L",
     pos |-> call_input.pos, cigar |-> call_input.cigar]

\* the call of GenomeAlignment::create on the record of a selected read
CallCreateFromTe ==
    /\ call_input.f = "from_te"
    /\ call_result = NotRun
    /\ call_result' =
           [done |-> TRUE, v |-> GenomeAlignment_create(bin, RecordOfRead, <<"2L">>)]
    /\ UNCHANGED <<bin, asm_vars, sel_vars, call_input>>

InitFromTe ==
    /\ bin \in Bins
    /\ AssemblyIdle
    /\ SelectIdle
    /\ call_input \in FromTeInputs(1..MaxTeLength)
    /\ call_result = NotRun

SpecFromTe == InitFromTe /\ [][CallCreateFromTe]_vars

(***************************************************************************)
(* The pass of get_non_ref_tes over one pool, one read at a time.  The     *)
(* record call_result holds the reads still to come, the accumulators      *)
(* tes, the returned vector v, and a history of the last iteration: the    *)
(* accumulators before it (before), the read it took (last) and, for every *)
(* accumulator, the transposon names of the reads counted in it (counted)  *)
(* and whether the read that started it was an upstream-side read          *)
(* (started).                                                              *)
(***************************************************************************)
MaxPool == 3

\* split reads of two transposons: S then M is a downstream-side read at pos,
\* M then S an upstream-side read at pos + 1
NonRefLines(positions) ==
    {GLine(n, k[1], k[2], 0, "2L", pos, cigar) :
        n \in 1..2, k \in {<<"SM", "start">>, <<"MS", "end">>},
        pos \in positions, cigar \in {Cigar_1S2M, Cigar_2M1S}}

\* the pool as the reading loop builds it from the reads in arrival order
RECURSIVE PoolOfReads(_, _)
PoolOfReads(b, reads) ==
    IF reads = <<>> THEN <<>>
    ELSE PoolPush(b, PoolOfReads(b, SubSeq(reads, 1, Len(reads) - 1)), reads[Len(reads)])

TsdSettings == {<<0, 1>>, <<1, 2>>}

NonRefInputs(b, positions, n) ==
    {[f |-> "non_ref", heap |-> PoolSort(b, PoolOfReads(b, reads)),
      min_tsd_length |-> s[1], max_tsd_length |-> s[2]] :
        reads \in SeqsUpTo({GenomeAlignment_create(b, line, <<"2L">>).al :
                               line \in NonRefLines(positions)}, n),
        s \in TsdSettings}

\* the names of the reads counted in each accumulator, after one iteration
CountedAfter(counted, before, after, alignment) ==
    IF Len(after) = Len(before)
    THEN [counted EXCEPT ![Len(counted)] = @ \cup {alignment.te_name}]
    ELSE Append(counted, {alignment.te_name})

\* the sides of the reads that started the accumulators, after one iteration
StartedAfter(started, before, after, alignment) ==
    IF Len(after) = Len(before) THEN started
    ELSE Append(started, IF upstream(alignment) THEN "upstream" ELSE "downstream")

\* the pool is drained into the 3D vector
StartPass ==
    /\ call_input.f \in {"non_ref", "ref"}
    /\ call_result = NotRun
    /\ call_result' = [done |-> FALSE, pc |-> "loop",
                       groups |-> make_3d_vector(call_input.heap),
                       same_transposon_name |-> <<>>, reads |-> <<>>,
                       tes |-> <<>>, before |-> <<>>, last |-> <<>>, counted |-> <<>>,
                       started |-> <<>>, v |-> <<>>]
    /\ UNCHANGED <<bin, asm_vars, sel_vars, call_input>>

\* "for same_transposon_name in alignments_3d"
NextGroup ==
    /\ call_input.f \in {"non_ref", "ref"}
    /\ call_result # NotRun
    /\ call_result.pc = "loop"
    /\ call_result.reads = <<>>
    /\ call_result.groups # <<>>
    /\ call_result' = [call_result EXCEPT
           !.groups = Tail(@), !.same_transposon_name = Head(call_result.groups),
           !.reads = Flatten(Head(call_result.groups)), !.last = <<>>]
    /\ UNCHANGED <<bin, asm_vars, sel_vars, call_input>>

\* one iteration of the innermost loop of get_non_ref_tes
NonRefStep ==
    /\ call_input.f = "non_ref"
    /\ call_result # NotRun
    /\ call_result.pc = "loop"
    /\ call_result.reads # <<>>
    /\ \E after \in {non_ref_step(call_result.tes, Head(call_result.reads),
                                  call_input.min_tsd_length, call_input.max_tsd_length,
                                  "2L")} :
           call_result' = [call_result EXCEPT
               !.reads = Tail(@), !.tes = after, !.before = call_result.tes,
               !.last = <<Head(call_result.reads)>>,
               !.counted = CountedAfter(@, call_result.tes, after,
                                        Head(call_result.reads)),
               !.started = StartedAfter(@, call_result.tes, after,
                                        Head(call_result.reads))]
    /\ UNCHANGED <<bin, asm_vars, sel_vars, call_input>>

\* after the loops: filter, sort, return
FinishPass ==
    /\ call_input.f \in {"non_ref", "ref"}
    /\ call_result # NotRun
    /\ call_result.pc = "loop"
    /\ call_result.reads = <<>>
    /\ call_result.groups = <<>>
    /\ call_result' = [call_result EXCEPT
           !.done = TRUE, !.pc = "done", !.last = <<>>,
           !.v = sort_by_upstream_pos(filter_tes(call_result.tes))]
    /\ UNCHANGED <<bin, asm_vars, sel_vars, call_input>>

InitNonRef ==
    /\ bin \in Bins
    /\ AssemblyIdle
    /\ SelectIdle
    /\ call_input \in NonRefInputs(bin, 4..5, MaxPool)
    /\ call_result = NotRun

NextNonRef == StartPass \/ NextGroup \/ NonRefStep \/ FinishPass

SpecNonRef == InitNonRef /\ [][NextNonRef]_vars

(***************************************************************************)
(* The pass of get_ref_tes over one pool, one read at a time.              *)
(***************************************************************************)
\* reads that match the reference over their whole length: of the start of
\* a transposon or of its end, on the plus strand or on the minus strand
RefLines(positions) ==
    {GLine(n, k[1], k[2], flag, "2L", pos, Cigar_3M) :
        n \in 1..2, k \in {<<"SM", "start">>, <<"MS", "end">>},
        flag \in {0, 16}, pos \in positions}

RefInputs(b, positions, n) ==
    {[f |-> "ref", heap |-> PoolSort(b, PoolOfReads(b, reads)),
      min_te_length |-> lo, max_te_length |-> <<3, 2>>,
      all_te_lengths |-> (1 :> 2) @@ (2 :> 2)] :
        reads \in SeqsUpTo({GenomeAlignment_create(b, line, <<"2L">>).al :
                               line \in RefLines(positions)}, n),
        lo \in {<<1, 10>>, <<1, 2>>}}

\* one iteration of the innermost loop of get_ref_tes
RefStep ==
    /\ call_input.f = "ref"
    /\ call_result # NotRun
    /\ call_result.pc = "loop"
    /\ call_result.reads # <<>>
    /\ LET cur_te_length ==
               call_input.all_te_lengths[call_result.same_transposon_name[1][1].te_name]
       IN  \E after \in {ref_step(call_result.tes, Head(call_result.reads),
                                  call_input.min_te_length, call_input.max_te_length,
                                  cur_te_length, "2L")} :
               call_result' = [call_result EXCEPT
                   !.reads = Tail(@), !.tes = after, !.before = call_result.tes,
                   !.last = <<Head(call_result.reads)>>,
                   !.counted = CountedAfter(@, call_result.tes, after,
                                            Head(call_result.reads)),
                   !.started = StartedAfter(@, call_result.tes, after,
                                            Head(call_result.reads))]
    /\ UNCHANGED <<bin, asm_vars, sel_vars, call_input>>

InitRef ==
    /\ bin \in Bins
    /\ AssemblyIdle
    /\ SelectIdle
    /\ call_input \in RefInputs(bin, 4..5, MaxPool)
    /\ call_result = NotRun

NextRef == StartPass \/ NextGroup \/ RefStep \/ FinishPass

SpecRef == InitRef /\ [][NextRef]_vars

\* the two passes, each over its own pool
SpecPasses == (InitNonRef \/ InitRef) /\ [][NextNonRef \/ NextRef]_vars

(***************************************************************************)
(* select_alignments: the writing of the output file.  call_input holds    *)
(* the flag and, chromosome by chromosome, the insertions that the two     *)
(* passes return; call_result.file is what has been written, piece by      *)
(* piece.                                                                  *)
(***************************************************************************)
MaxChroms == 2

ChromNames == <<"2L", "X">>

\* "Chromosome\tTSD Upstream\t...\tFound in Reference?\n"
TsvHeader == [fmt |-> "tsv", header |-> TRUE]
\* "[\n"
ArrayOpen == [fmt |-> "json", text |-> "["]
\* format!("{}\n", insertion): a row of tab-separated fields
TsvRow(row) == [fmt |-> "tsv", header |-> FALSE, row |-> row]
\* serde_json::to_string_pretty of one insertion or of the whole output
JsonOf(value) == [fmt |-> "json", value |-> value]

\* the pieces written for a sequence of rows or of insertions
RECURSIVE TsvRows(_)
TsvRows(rows) ==
    IF rows = <<>> THEN <<>> ELSE <<TsvRow(Head(rows))>> \o TsvRows(Tail(rows))

RECURSIVE JsonRows(_)
JsonRows(tes) ==
    IF tes = <<>> THEN <<>> ELSE <<JsonOf(Head(tes))>> \o JsonRows(Tail(tes))

\* the rows of one chromosome, non-reference insertions first
TsvRowsOfChrom(o) == TsvRows(ChromRows(o))
JsonRowsOfChrom(o) == JsonRows(o.non_reference \o o.reference)

RECURSIVE TsvRowsOfAll(_)
TsvRowsOfAll(out) ==
    IF out = <<>> THEN <<>> ELSE TsvRowsOfChrom(Head(out)) \o TsvRowsOfAll(Tail(out))

\* what the passes can return for one chromosome
ChromOutputs(chrom) ==
    {[non_reference |-> nr, reference |-> r] :
        nr \in SeqsUpTo({Insertion(n, chrom, 5, 4, "PlusPlus", 1, 1) : n \in 1..2}, 1),
        r \in SeqsUpTo({Insertion(n, chrom, 5, 6, "PlusMinus", 1, 1) : n \in 1..2}, 1)}

RECURSIVE OutputsOf(_)
OutputsOf(n) ==
    IF n = 0 THEN {<<>>}
    ELSE {Append(out, o) : out \in OutputsOf(n - 1), o \in ChromOutputs(ChromNames[n])}

WriteInputs(n) ==
    {[f |-> "write", output_should_be_json |-> flag, output |-> out] :
        flag \in BOOLEAN, out \in UNION {OutputsOf(k) : k \in 1..n}}

\* stanex: "first, write the TSV header if necessary"
WriteHeader ==
    /\ bin = "stanex"
    /\ call_input.f = "write"
    /\ call_result = NotRun
    /\ call_result' =
           [done |-> FALSE, chrom_no |-> 0,
            file |-> IF call_input.output_should_be_json THEN <<TsvHeader>>
                     ELSE <<ArrayOpen>>]
    /\ UNCHANGED <<bin, asm_vars, sel_vars, call_input>>

\* stanex: "then, write all the insertions", one chromosome at a time
WriteChrom ==
    /\ bin = "stanex"
    /\ call_input.f = "write"
    /\ call_result # NotRun
    /\ call_result.chrom_no < Len(call_input.output)
    /\ LET o == call_input.output[call_result.chrom_no + 1]
       IN  call_result' =
               [done |-> call_result.chrom_no + 1 = Len(call_input.output),
                chrom_no |-> call_result.chrom_no + 1,
                file |-> call_result.file
                             \o IF call_input.output_should_be_json
                                THEN JsonRowsOfChrom(o) ELSE TsvRowsOfChrom(o)]
    /\ UNCHANGED <<bin, asm_vars, sel_vars, call_input>>

\* sx: the whole output is written after the loop over the chromosomes
WriteAll ==
    /\ bin = "sx"
    /\ call_input.f = "write"
    /\ call_result = NotRun
    /\ call_result' =
           [done |-> TRUE, chrom_no |-> Len(call_input.output),
            file |-> IF call_input.output_should_be_json
                     THEN <<JsonOf(call_input.output)>>
                     ELSE <<TsvHeader>> \o TsvRowsOfAll(call_input.output)]
    /\ UNCHANGED <<bin, asm_vars, sel_vars, call_input>>

InitWrite ==
    /\ bin \in Bins
    /\ AssemblyIdle
    /\ SelectIdle
    /\ call_input \in WriteInputs(MaxChroms)
    /\ call_result = NotRun

NextWrite == WriteHeader \/ WriteChrom \/ WriteAll

SpecWrite == InitWrite /\ [][NextWrite]_vars

(***************************************************************************)
(* new_algo.rs, step 1: the reads of one chromosome split by transposon    *)
(* name.  A name is a string, here a sequence of characters 1, 2; a read   *)
(* is its name and the place it had in the list before the sort.           *)
(***************************************************************************)
MaxReads == 4

TeNames == {<<>>, <<1>>, <<1, 1>>, <<2>>}

\* String::cmp(a, b) is not Greater: the lexicographic order of the strings
RECURSIVE str_le(_, _)
str_le(a, b) ==
    IF a = <<>> THEN TRUE
    ELSE IF b = <<>> THEN FALSE
    ELSE IF a[1] # b[1] THEN a[1] < b[1]
    ELSE str_le(Tail(a), Tail(b))

\* chrom_list.reads.sort_by(|a, b| a.te_name.cmp(&b.te_name)), a stable sort
RECURSIVE InsertByName(_, _)
InsertByName(sorted, x) ==
    IF sorted = <<>> THEN <<x>>
    ELSE IF str_le(Head(sorted).te_name, x.te_name)
    THEN <<Head(sorted)>> \o InsertByName(Tail(sorted), x)
    ELSE <<x>> \o sorted

RECURSIVE sort_by_te_name(_)
sort_by_te_name(reads) ==
    IF reads = <<>> THEN <<>>
    ELSE InsertByName(sort_by_te_name(SubSeq(reads, 1, Len(reads) - 1)), reads[Len(reads)])

TEList(te_name, reads) == [te_name |-> te_name, reads |-> reads]

\* "if last_te_list.te_name.len() > 0 { te_lists.push(last_te_list); }"
push_named(te_lists, last_te_list) ==
    IF Len(last_te_list.te_name) > 0 THEN Append(te_lists, last_te_list) ELSE te_lists

\* the loop over chrom_list.reads.iter().enumerate(), from index on
RECURSIVE step1_loop(_, _, _, _)
step1_loop(reads, index, te_lists, last_te_list) ==
    IF index = Len(reads) THEN Append(te_lists, last_te_list)
    ELSE LET alignment == reads[index + 1]
         IN  IF index = 0 THEN step1_loop(reads, index + 1, te_lists, last_te_list)
             ELSE IF alignment.te_name = last_te_list.te_name
             THEN step1_loop(reads, index + 1, te_lists,
                             [last_te_list EXCEPT !.reads = Append(@, index)])
             ELSE step1_loop(reads, index + 1, push_named(te_lists, last_te_list),
                             TEList(alignment.te_name, <<index>>))

\* step1 sorts chrom_list.reads in place and returns the TELists;
\* chrom_list.reads[0] of an empty list panics
step1(chrom_list) ==
    IF chrom_list.reads = <<>> THEN [res |-> "panic", reads |-> <<>>]
    ELSE LET sorted == sort_by_te_name(chrom_list.reads)
         IN  [res |-> "ok", reads |-> sorted,
              te_lists |-> step1_loop(sorted, 0, <<>>, TEList(sorted[1].te_name, <<0>>))]

\* the lists of reads of up to n reads, each read with its place in the list
RECURSIVE ReadLists(_)
ReadLists(n) ==
    IF n = 0 THEN {<<>>}
    ELSE LET shorter == ReadLists(n - 1)
         IN  shorter \cup {Append(q, [te_name |-> name, arrival |-> n - 1]) :
                              q \in {r \in shorter : Len(r) = n - 1}, name \in TeNames}

Step1Inputs(n) ==
    {[f |-> "step1", chrom_list |-> [chrom_name |-> "2L", reads |-> reads]] :
        reads \in ReadLists(n)}

CallStep1 ==
    /\ call_input.f = "step1"
    /\ call_result = NotRun
    /\ call_result' = [done |-> TRUE, v |-> step1(call_input.chrom_list)]
    /\ UNCHANGED <<bin, asm_vars, sel_vars, call_input>>

InitStep1 ==
    /\ bin = "sx"
    /\ AssemblyIdle
    /\ SelectIdle
    /\ call_input \in Step1Inputs(MaxReads)
    /\ call_result = NotRun

SpecStep1 == InitStep1 /\ [][CallStep1]_vars

(***************************************************************************)
(* make_3d_vector on one pool.  The transposon name 0 is the empty string, *)
(* the value cur_transposon_name starts with.                              *)
(***************************************************************************)
PoolLines(positions) ==
    {GLine(n, "MS", "end", 0, "2L", pos, cigar) :
        n \in 0..2, pos \in positions, cigar \in {Cigar_1S2M, Cigar_2M1S}}

Make3dInputs(b, positions, n) ==
    {[f |-> "make_3d", heap |-> PoolSort(b, PoolOfReads(b, reads))] :
        reads \in SeqsUpTo({GenomeAlignment_create(b, line, <<"2L">>).al :
                               line \in PoolLines(positions)}, n)}

\* the call; the heap is left as the pops leave it
CallMake3d ==
    /\ call_input.f = "make_3d"
    /\ call_result = NotRun
    /\ call_result' = [done |-> TRUE, popped |-> heap_drain(call_input.heap),
                       r |-> make_3d_result(call_input.heap)]
    /\ UNCHANGED <<bin, asm_vars, sel_vars, call_input>>

InitMake3d ==
    /\ bin \in Bins
    /\ AssemblyIdle
    /\ SelectIdle
    /\ call_input \in Make3dInputs(bin, 4..5, MaxPool)
    /\ call_result = NotRun

SpecMake3d == InitMake3d /\ [][CallMake3d]_vars

(***************************************************************************)
(* new_from_sg on a synthetic position, and new_from_normal on the         *)
(* reference position it returned.                                         *)
(***************************************************************************)
\* no two spans of one chromosome share a position
Disjoint(ilocs) ==
    \A i, j \in 1..Len(ilocs) :
        (i < j /\ ilocs[i].chrom = ilocs[j].chrom)
        => ilocs[i].downstream_pos < ilocs[j].upstream_pos

ToReferenceInputs(max_coord, max_ilocs) ==
    {[f |-> "to_reference", chrom |-> chrom, sg_pos |-> pos, ilocs |-> t,
      overflow_checks |-> checks] :
        chrom \in {"2L", "2R"}, pos \in 1..(max_coord + 2),
        t \in {u \in SortedILocLists(max_ilocs, ILocs(max_coord)) : Disjoint(u)},
        checks \in BOOLEAN}

\* the call of new_from_sg on a synthetic position
CallToReference ==
    /\ call_input.f = "to_reference"
    /\ call_result = NotRun
    /\ call_result' =
           [done |-> TRUE, converted |-> FALSE,
            v |-> new_from_sg(call_input.chrom, call_input.sg_pos, call_input.ilocs,
                              call_input.overflow_checks)]
    /\ UNCHANGED <<bin, asm_vars, sel_vars, call_input>>

\* the call of new_from_normal on the reference position new_from_sg returned
CallToSynthetic ==
    /\ call_input.f = "to_reference"
    /\ call_result # NotRun
    /\ ~call_result.converted
    /\ call_result.v.ok
    /\ call_result' =
           [done |-> TRUE, converted |-> TRUE, v |-> call_result.v,
            back |-> new_from_normal(call_input.chrom, call_result.v.normal_ref,
                                     call_input.ilocs, call_input.overflow_checks)]
    /\ UNCHANGED <<bin, asm_vars, sel_vars, call_input>>

InitToReference ==
    /\ bin \in Bins
    /\ AssemblyIdle
    /\ SelectIdle
    /\ call_input \in ToReferenceInputs(MaxCoord, MaxILocs)
    /\ call_result = NotRun

NextToReference == CallToReference \/ CallToSynthetic

SpecToReference == InitToReference /\ [][NextToReference]_vars

(***************************************************************************)
(* new_algo.rs step 4: the groups of one sub-list that step 3 has sorted   *)
(* by boundary.                                                            *)
(***************************************************************************)
MaxBoundary == 4

\* the loop of step4 from the i-th read of the sub-list on; last_loc is the
\* boundary of the first read of the sub-list ("let last_loc", never
\* assigned again)
RECURSIVE step4_loop(_, _, _, _, _, _)
step4_loop(reads, i, last_loc, group_blur, boundary, res) ==
    IF i > Len(reads) THEN res
    ELSE LET read_idx == reads[i]
             next_read_boundary == boundary[read_idx]
         IN  IF next_read_boundary - last_loc <= group_blur
             THEN step4_loop(reads, i + 1, last_loc, group_blur, boundary,
                             [res EXCEPT ![Len(res)].reads = Append(@, read_idx)])
             ELSE step4_loop(reads, i + 1, last_loc, group_blur, boundary,
                             Append(res, [reads |-> <<read_idx>>]))

\* "reads: vec![sub_list.reads[0]]" panics on an empty sub-list; the first
\* read is skipped by the loop
step4(reads, group_blur, boundary) ==
    IF reads = <<>> THEN Panic
    ELSE [res |-> "ok",
          v |-> step4_loop(reads, 2, boundary[reads[1]], group_blur, boundary,
                           <<[reads |-> <<reads[1]>>]>>)]

\* the boundaries of at most n reads, from least to greatest
RECURSIVE SortedBoundaries(_, _)
SortedBoundaries(n, max_boundary) ==
    IF n = 0 THEN {<<>>}
    ELSE LET shorter == SortedBoundaries(n - 1, max_boundary)
         IN  shorter \cup
             UNION {{Append(t, b) : b \in {x \in 0..max_boundary :
                                               t # <<>> => t[Len(t)] <= x}} :
                    t \in {t \in shorter : Len(t) = n - 1}}

\* a sub-list after step 3: its reads are the indices 1..n of the reads of
\* the chromosome, in the order of their boundaries
Step4Inputs(n, max_boundary) ==
    {[f |-> "step4", reads |-> [i \in 1..Len(t) |-> i], boundary |-> t,
      group_blur |-> blur] :
        t \in SortedBoundaries(n, max_boundary), blur \in 1..2}

\* the call of step4
CallStep4 ==
    /\ call_input.f = "step4"
    /\ call_result = NotRun
    /\ call_result' = [done |-> TRUE,
                       r |-> step4(call_input.reads, call_input.group_blur,
                                   call_input.boundary)]
    /\ UNCHANGED <<bin, asm_vars, sel_vars, call_input>>

InitStep4 ==
    /\ bin = "sx"
    /\ AssemblyIdle
    /\ SelectIdle
    /\ call_input \in Step4Inputs(MaxReads, MaxBoundary)
    /\ call_result = NotRun

SpecStep4 == InitStep4 /\ [][CallStep4]_vars

(***************************************************************************)
(* The hand-off between the two passes: the header line that Display       *)
(* writes for a selected read, character by character, and the fields the  *)
(* genome-side builder reads back from the name of the genome-aligned      *)
(* record.                                                                 *)
(***************************************************************************)
MaxNameLen == 2
MaxHeaderSize == 11

\* a header line that gives the two sizes in the other order
fmt_sizes_swapped(al) ==
    <<">">> \o al.qname \o <<"|">> \o al.rname \o <<"|">> \o to_string(al.s_size)
        \o <<"|">> \o to_string(al.m_size) \o <<"|">>
        \o (IF al.is_sm THEN <<"S", "M">> ELSE <<"M", "S">>) \o <<"|">>
        \o (IF al.is_start THEN <<"s", "t", "a", "r", "t">> ELSE <<"e", "n", "d">>)

\* impl Display for TeAlignment, the first line:
\* write!(f, ">{}|{}|{}|{}|{}|{}\n{}", qname, rname, m_size, s_size, sm_str, start_str, seq)
fmt(al) ==
    <<">">> \o al.qname \o <<"|">> \o al.rname \o <<"|">> \o to_string(al.m_size)
        \o <<"|">> \o to_string(al.s_size) \o <<"|">>
        \o (IF al.is_sm THEN <<"S", "M">> ELSE <<"M", "S">>) \o <<"|">>
        \o (IF al.is_start THEN <<"s", "t", "a", "r", "t">> ELSE <<"e", "n", "d">>)

\* row.split(delimiter): the pieces between the delimiters, empty ones kept
RECURSIVE split(_, _)
split(row, delimiter) ==
    IF \A i \in 1..Len(row) : row[i] # delimiter THEN <<row>>
    ELSE LET first == CHOOSE i \in 1..Len(row) :
                          row[i] = delimiter /\ \A j \in 1..(i - 1) : row[j] # delimiter
         IN  <<SubSeq(row, 1, first - 1)>>
                 \o split(SubSeq(row, first + 1, Len(row)), delimiter)

\* SECOND_SAM_FILE_TE_ALIGNMENT_METADATA.read: the columns 2..6 of the name,
\* split at "|"; a name of fewer columns panics
Metadata_read(row) ==
    LET split_str == split(row, "|")
    IN  IF Len(split_str) < 6 THEN Panic
        ELSE [res |-> "ok", TE_NAME |-> split_str[2], OLD_M |-> split_str[3],
              OLD_S |-> split_str[4], OLD_SM |-> split_str[5],
              START_OF_TE |-> split_str[6]]

\* GenomeAlignment::create, the fields of the TE side: a size that is no
\* number is an Err, SM that is not at the start (or MS that is) a panic
te_fields(te_alignment_data) ==
    LET old_m == parse_u64(te_alignment_data.OLD_M)
        old_s == parse_u64(te_alignment_data.OLD_S)
        is_sm_te == te_alignment_data.OLD_SM = <<"S", "M">>
        is_start == te_alignment_data.START_OF_TE = <<"s", "t", "a", "r", "t">>
    IN  IF ~old_m.ok \/ ~old_s.ok THEN Skip
        ELSE IF is_sm_te # is_start THEN Panic
        ELSE [res |-> "ok", te_name |-> te_alignment_data.TE_NAME, old_m |-> old_m.v,
              old_s |-> old_s.v, is_sm_te |-> is_sm_te, is_start |-> is_start]

\* the names of reads and transposons: with and without a "|"
NameChars == {"a", "|"}

\* the TE alignments the TE-side builder accepts: SM at the start, MS at the
\* end
HandOffInputs(n, max_size) ==
    {[f |-> "hand_off",
      te |-> TeAlignment([qname |-> q, rname |-> r, seq |-> "ACGT"],
                         [kind |-> k, m |-> m, s |-> sz])] :
        q \in SeqsUpTo(NameChars, n), r \in SeqsUpTo(NameChars, n),
        k \in {"SM", "MS"}, m \in 1..max_size, sz \in {1, max_size}}

\* the selection pass writes the header of the read, the aligner copies it,
\* without its ">", into the name of the record, and read_genome_alignment
\* reads the TE-side fields from that name
CallHandOff ==
    /\ call_input.f = "hand_off"
    /\ call_result = NotRun
    /\ \E header \in {fmt(call_input.te)} :
       \E te_alignment_data \in {Metadata_read(Tail(header))} :
           call_result' =
               [done |-> TRUE, header |-> header,
                r |-> IF te_alignment_data = Panic THEN Panic
                      ELSE te_fields(te_alignment_data)]
    /\ UNCHANGED <<bin, asm_vars, sel_vars, call_input>>

InitHandOff ==
    /\ bin = "sx"
    /\ AssemblyIdle
    /\ SelectIdle
    /\ call_input \in HandOffInputs(MaxNameLen, MaxHeaderSize)
    /\ call_result = NotRun

SpecHandOff == InitHandOff /\ [][CallHandOff]_vars

(***************************************************************************)
(* Properties of the assembly engine.                                      *)
(***************************************************************************)
\* the heap a pool is when assembly starts, from its reads in arrival order:
\* BinaryHeap::from(vec) in sx, one push per read in stanex
PoolHeap(b, reads) == IF b = "sx" THEN heap_from(reads) ELSE heap_push_all(<<>>, reads)

Elems(s) == {s[i] : i \in 1..Len(s)}
NonDecreasing(ps) == \A i, j \in 1..Len(ps) : i < j => ps[i] <= ps[j]
Reads(t) == t.num_upstream_reads + t.num_downstream_reads

\* the reads that have arrived in the pools of a chromosome, in drain order
NonRefDrained(c) == heap_drain(PoolHeap(bin, arrived[c].nonref))
NonRefAccumulators(c) ==
    non_ref_accumulators(PoolHeap(bin, arrived[c].nonref), params.min_tsd_length,
                         params.max_tsd_length, c)
\* the accumulators after the first k drained reads
NonRefAfter(c, k) ==
    non_ref_loop(<<>>, SubSeq(NonRefDrained(c), 1, k), params.min_tsd_length,
                 params.max_tsd_length, c)


\* C1: every insertion that get_non_ref_tes or get_ref_tes returns has at
\* least one upstream read and at least one downstream read.
C1_BothEnds ==
    \A i \in 1..Len(output) :
        \A t \in Elems(output[i].non_reference) \cup Elems(output[i].reference) :
            t.num_upstream_reads >= 1 /\ t.num_downstream_reads >= 1

\* a chromosome was assembled, an insertion survived and an accumulator with
\* reads on one side only was discarded
C1_Witness ==
    /\ Len(output) = 1
    /\ output[1].non_reference # <<>>
    /\ \E t \in Elems(NonRefAccumulators("2L")) : ~KeepInsertion(t)

\* the upstream position a written row shows
UpstreamOfRow(row) ==
    IF row.reference = "reference" THEN row.start_pos ELSE row.end_pos

RowsOf(c, kinds) ==
    SelectSeq(written, LAMBDA row : row.chrom = c /\ row.reference \in kinds)
UpstreamsOf(rows) == [i \in 1..Len(rows) |-> UpstreamOfRow(rows[i])]

\* C2 as stated: the rows written for a chromosome are non-decreasing in
\* upstream_pos.
C2_ChromNonDecreasing ==
    \A c \in Elems(params.chroms) :
        NonDecreasing(UpstreamsOf(RowsOf(c, {"non-reference", "reference"})))

\* C2, amended: for every chromosome the non-reference rows written are
\* non-decreasing in upstream_pos, and so are the reference rows; the
\* reference rows follow the non-reference rows.
C2_EachListNonDecreasing ==
    \A c \in Elems(params.chroms) :
        /\ NonDecreasing(UpstreamsOf(RowsOf(c, {"non-reference"})))
        /\ NonDecreasing(UpstreamsOf(RowsOf(c, {"reference"})))
        /\ RowsOf(c, {"non-reference", "reference"})
              = RowsOf(c, {"non-reference"}) \o RowsOf(c, {"reference"})

\* rows were written whose order is not the order of the accumulators
C2_Witness ==
    /\ apc = "done"
    /\ Len(RowsOf("2L", {"non-reference"})) >= 2
    /\ filter_tes(NonRefAccumulators("2L")) # output[1].non_reference


SameKey(a, b) == a.te_name = b.te_name /\ get_boundary_nt(a) = get_boundary_nt(b)
SameSide(a, b) == upstream(a) = upstream(b) /\ a.is_sm_te = b.is_sm_te

\* the accumulators that hold reads of transposon a.te_name at a's boundary
ClustersAt(c, a) ==
    {k \in 1..Len(NonRefAccumulators(c)) :
        LET t == NonRefAccumulators(c)[k]
        IN  /\ t.name = a.te_name
            /\ get_boundary_nt(a) \in {t.upstream_pos, t.downstream_pos}}

RECURSIVE Arranged(_, _, _)
Arranged(s, f, n) == IF n = 0 THEN <<>> ELSE Append(Arranged(s, f, n - 1), s[f[n]])
Arrangements(s) == {Arranged(s, f, Len(s)) : f \in Permutations(1..Len(s))}

\* C4: the insertions produced for a chromosome are the same for every
\* arrival order of the reads of its pools.
C4_ArrivalOrderIrrelevant ==
    apc = "done"
    => \A i \in 1..Len(params.chroms) :
          LET c == params.chroms[i]
          IN  /\ \A reads \in Arrangements(arrived[c].nonref) :
                     get_non_ref_tes(PoolHeap(bin, reads), params.min_tsd_length,
                                     params.max_tsd_length, c)
                       = output[i].non_reference
              /\ \A reads \in Arrangements(arrived[c].ref) :
                     get_ref_tes(PoolHeap(bin, reads), params.min_te_length,
                                 params.max_te_length, params.all_te_lengths, c)
                       = output[i].reference

\* C10: a mapped record with is_sm_te != is_start ends the genome-side build
\* in a fatal error, and every pooled alignment has is_sm_te = is_start.
C10_IntegrityFatal ==
    /\ \A i \in 1..line_no :
          (/\ is_mapped(genome_file[i].flag)
           /\ (genome_file[i].qname[5] = "SM") # (genome_file[i].qname[6] = "start"))
          => apc = "panicked" /\ line_no = i
    /\ \A c \in DOMAIN arrived :
          \A a \in Elems(arrived[c].nonref) \cup Elems(arrived[c].ref) :
              a.is_sm_te = a.is_start
(***************************************************************************)
(* Properties of the selection pass.                                       *)
(***************************************************************************)
\* the record lines read so far, and the workers that hold record i and have
\* not yet handed it to the builder
Consumed == IF reader_pos > HeaderLen THEN reader_pos - HeaderLen ELSE 0
Holding(i) == {w \in WorkerIds : wrec[w] = i /\ wpc[w] \in {"count", "classify"}}
Panicked == {w \in WorkerIds : wpc[w] = "panicked"}
Built(i) == TeAlignment_create(bin, te_file.records[i], ReadAllTes(<<>>, te_file.header))

C6_TableBuiltFirst ==
    /\ [](Spawned # {} => /\ reader_pos >= HeaderLen
                          /\ transposons = ReadAllTes(<<>>, te_file.header))
    /\ [][Spawned # {} => transposons' = transposons]_vars

\* a worker is about to classify a record
C6_Witness ==
    \E w \in WorkerIds :
        /\ wpc[w] = "classify"
        /\ DOMAIN transposons = {TeHeader[i].name : i \in 1..Len(TeHeader)}

\* C7: in the output every header line is followed at once by the sequence
\* line of the same record; when select_reads returns the output holds one
\* such pair for every record the builder accepted and nothing else.
C7_OutputRecords ==
    /\ \A k \in 1..Len(selected) :
          IF selected[k].kind = "header"
          THEN k < Len(selected) => /\ selected[k + 1].kind = "seq"
                                    /\ selected[k + 1].rec = selected[k].rec
          ELSE /\ k > 1
               /\ selected[k - 1].kind = "header"
               /\ selected[k - 1].rec = selected[k].rec
    /\ \A k \in 1..Len(selected) : selected[k].rec \in accepted
    /\ \A i \in accepted : Built(i).res = "ok"
    /\ spc = "returned"
       => /\ Len(selected) = 2 * Cardinality(accepted)
          /\ \A i \in accepted :
                \E k \in 1..(Len(selected) - 1) :
                    /\ selected[k] = OutLine(i, "header", HeaderLine(Built(i).al))
                    /\ selected[k + 1] = OutLine(i, "seq", SeqLine(Built(i).al))
          /\ Panicked = {}
             => accepted = {i \in 1..Len(te_file.records) : Built(i).res = "ok"}

\* select_reads returned; two accepted records were written in the reverse
\* of their input order and a record was rejected
C7_Witness ==
    /\ spc = "returned"
    /\ Len(selected) >= 4
    /\ selected[1].rec > selected[3].rec
    /\ Cardinality(accepted) < Len(te_file.records)

\* no TE-side build of the input ends in a panic
NoFatalError == \A i \in 1..Len(te_file.records) : Built(i).res # "panic"

WaitsForLock(w) == wpc[w] \in {"lock_reader", "count", "lock_writer"}

\* C8: on an input with no fatal error every worker stops, and only at end
\* of stream; the join completes and select_reads returns; a worker that
\* waits for a lock gets it.
C8_Terminates ==
    NoFatalError
    => /\ <>(spc = "returned" /\ \A w \in 1..num_workers : wpc[w] = "done")
       /\ [](\A w \in WorkerIds : wpc[w] = "done" => AtEof)
       /\ \A w \in WorkerIds : WaitsForLock(w) ~> ~WaitsForLock(w)

\* select_reads returned after two workers read a stream of several records
\* to its end
C8_Witness ==
    /\ spc = "returned"
    /\ num_workers = 2
    /\ \A w \in 1..num_workers : wpc[w] = "done"
    /\ Len(te_file.records) >= 2
    /\ AtEof

\* C9: after a mapped record with an unknown transposon has been handed to
\* the builder, no record is classified and no line is written.
C9_FatalAborts ==
    [][fatal_seen => (classified' = classified /\ selected' = selected)]_vars
(***************************************************************************)
(* Skip-and-continue.                                                      *)
(***************************************************************************)
\* the reasons for which the genome-side build drops a record and goes on:
\* unmapped; or, with a consistent TE-side annotation, a chromosome outside
\* the list or a match description of no shape
GenomeSkipReason(line, chroms) ==
    \/ ~is_mapped(line.flag)
    \/ /\ (line.qname[5] = "SM") = (line.qname[6] = "start")
       /\ \/ ~InSeq(line.rname, chroms)
          \/ SplitReadGenome_parse(line.cigar, line.qname[3], line.qname[4],
                                   line.qname[6] = "start", is_plus(line.flag),
                                   line.pos) = NoShape

\* the reasons for which the TE-side build drops a record and goes on:
\* unmapped; or, for a transposon of the table, no shape or a split that is
\* not anchored at a boundary of the transposon
TeSkipReason(rec, table) ==
    \/ ~is_mapped(rec.flag)
    \/ /\ rec.rname \in DOMAIN table
       /\ \E shape \in {SplitReadTE_parse(rec.cigar, rec.pos)} :
             \/ shape = NoShape
             \/ shape.kind \in {"SM", "MS"} /\ ~AtBoundary(shape, table[rec.rname])

\* a stream without the records that are dropped
KeptLines(lines, chroms) == SelectSeq(lines, LAMBDA l : ~GenomeSkipReason(l, chroms))
KeptRecords(records, table) ==
    {i \in 1..Len(records) : ~TeSkipReason(records[i], table)}

\* the pools after the reading loop has consumed the lines
RECURSIVE PoolsAfter(_, _, _, _)
PoolsAfter(b, ps, lines, chroms) ==
    IF lines = <<>> THEN ps
    ELSE PoolsAfter(b,
                    CHOOSE next \in
                        {IF r.res = "ok"
                         THEN [ps EXCEPT ![r.chrom][PoolOf(r.al)] = PoolPush(b, @, r.al)]
                         ELSE ps : r \in {GenomeAlignment_create(b, Head(lines), chroms)}} :
                        TRUE,
                    Tail(lines), chroms)

\* the rows select_alignments writes for a stream
RECURSIVE RowsAfter(_, _, _, _)
RowsAfter(b, ps, chroms, p) ==
    IF chroms = <<>> THEN <<>>
    ELSE ChromRows([non_reference |->
                        get_non_ref_tes(PoolSort(b, ps[Head(chroms)].nonref),
                                        p.min_tsd_length, p.max_tsd_length, Head(chroms)),
                    reference |->
                        get_ref_tes(PoolSort(b, ps[Head(chroms)].ref), p.min_te_length,
                                    p.max_te_length, p.all_te_lengths, Head(chroms))])
         \o RowsAfter(b, ps, Tail(chroms), p)

\* the pools and the rows are those of the stream without the dropped lines
SkippedLinesLeaveNoTrace ==
    /\ apc = "reading"
       => pools = PoolsAfter(bin, EmptyPools(params.chroms),
                             KeptLines(SubSeq(genome_file, 1, line_no), params.chroms),
                             params.chroms)
    /\ apc = "done"
       => written = RowsAfter(bin,
                              PoolsAfter(bin, EmptyPools(params.chroms),
                                         KeptLines(genome_file, params.chroms),
                                         params.chroms),
                              params.chroms, params)

\* the selected-reads output holds the two lines of every record that is
\* not dropped, and nothing else; every record has been classified
SkippedRecordsLeaveNoTrace ==
    spc = "returned"
    => LET kept == KeptRecords(te_file.records, ReadAllTes(<<>>, te_file.header))
       IN  /\ {selected[k].rec : k \in 1..Len(selected)} = kept
           /\ Len(selected) = 2 * Cardinality(kept)
           /\ \A k \in 1..Len(selected) :
                 selected[k].text =
                     IF selected[k].kind = "header"
                     THEN HeaderLine(Built(selected[k].rec).al)
                     ELSE SeqLine(Built(selected[k].rec).al)
           /\ \A i \in 1..Len(te_file.records) : classified[i] = 1

\* the step that drops a line changes no pool and the loop goes on
SkipGenomeStep ==
    (/\ apc = "reading"
     /\ line_no' = line_no + 1
     /\ GenomeSkipReason(genome_file[line_no + 1], params.chroms))
    => /\ pools' = pools
       /\ arrived' = arrived
       /\ apc' = "reading"

\* the step that drops a record changes no output and the worker goes on to
\* read the next line
SkipTeStep ==
    \A w \in WorkerIds :
        (/\ wpc[w] = "classify"
         /\ wpc'[w] # "classify"
         /\ TeSkipReason(te_file.records[wrec[w]], transposons))
        => /\ selected' = selected
           /\ accepted' = accepted
           /\ wpc'[w] = "lock_reader"

\* C11: a record rejected for a skip-and-continue reason affects nothing but
\* itself: pools and outputs are those of the input without the record, and
\* the records after it are still processed.
C11_SkipIsLocal ==
    /\ [](SkippedLinesLeaveNoTrace /\ SkippedRecordsLeaveNoTrace)
    /\ [][SkipGenomeStep /\ SkipTeStep]_vars

\* a stream whose first and third lines are dropped, for different reasons,
\* has been assembled into an insertion row
C11_Witness ==
    /\ apc = "done"
    /\ written # <<>>
    /\ Len(genome_file) = 4
    /\ ~is_mapped(genome_file[1].flag)
    /\ genome_file[3].rname = "Un"
    /\ GenomeSkipReason(genome_file[3], params.chroms)
(***************************************************************************)
(* The window of get_ref_tes.                                              *)
(***************************************************************************)
\* the current insertion and the downstream-side read of the call
CurrentInsertion == call_input.tes[1]
ReadPosition == get_boundary_nt(call_input.alignment)
ReadOrientation == IF call_input.alignment.new_plus THEN "PlusPlus" ELSE "PlusMinus"
\* the read is at upstream_pos + k
ReadOffset == ReadPosition - CurrentInsertion.upstream_pos

\* the read was merged: the current insertion counts it and no insertion
\* was started
Merged ==
    /\ Len(call_result.v) = 1
    /\ call_result.v[1].num_downstream_reads = CurrentInsertion.num_downstream_reads + 1

\* fraction * length <= k and k <= fraction * length, in exact arithmetic
AtLeastProduct(k, fraction, length) == fraction[1] * length <= k * fraction[2]
AtMostProduct(k, fraction, length) == k * fraction[2] <= fraction[1] * length
\* trunc(fraction * length) <= k
AtLeastTruncated(k, fraction, length) == fraction[1] * length < (k + 1) * fraction[2]

\* C12 as stated: a downstream-side read of the orientation of the current
\* insertion, not at its downstream position, is merged iff
\* min_te_length * L <= k <= max_te_length * L.
C12_WindowExact ==
    (/\ call_result # NotRun
     /\ ReadOrientation = CurrentInsertion.orientation
     /\ ReadPosition # CurrentInsertion.downstream_pos)
    => (Merged <=>
            /\ AtLeastProduct(ReadOffset, call_input.min_te_length, call_input.cur_te_length)
            /\ AtMostProduct(ReadOffset, call_input.max_te_length, call_input.cur_te_length))

\* C12, amended: a downstream-side read is merged iff it has the orientation
\* of the current insertion and either is at its downstream position or has
\* trunc(min_te_length * L) <= k <= trunc(max_te_length * L); a merged read
\* that is not at the downstream position moves it to upstream_pos + k.
C12_WindowTruncated ==
    call_result # NotRun
    => /\ Merged <=>
            /\ ReadOrientation = CurrentInsertion.orientation
            /\ \/ ReadPosition = CurrentInsertion.downstream_pos
               \/ /\ AtLeastTruncated(ReadOffset, call_input.min_te_length,
                                      call_input.cur_te_length)
                  /\ AtMostProduct(ReadOffset, call_input.max_te_length,
                                   call_input.cur_te_length)
       /\ Merged => call_result.v[1].downstream_pos = ReadPosition
       /\ ~Merged => /\ Len(call_result.v) = 2
                     /\ call_result.v[1] = CurrentInsertion
                     /\ call_result.v[2].upstream_pos = Sentinel

\* a read at k = trunc(min_te_length * L) < min_te_length * L was merged
C12_Witness ==
    /\ call_result # NotRun
    /\ call_input.f = "ref_step"
    /\ Merged
    /\ CurrentInsertion.downstream_pos = Sentinel
    /\ ReadOffset = Scaled(call_input.min_te_length, call_input.cur_te_length)
    /\ ~AtLeastProduct(ReadOffset, call_input.min_te_length, call_input.cur_te_length)
    /\ ReadOffset > 0
(***************************************************************************)
(* The coordinate shift.                                                   *)
(***************************************************************************)
\* the position of the call lies strictly outside all spans of its chromosome
StrictlyOutside ==
    \A i \in 1..Len(call_input.ilocs) :
        ~contains(call_input.ilocs[i], call_input.chrom, call_input.pos)

\* C13: for a position strictly outside all spans of its chromosome,
\* new_from_sg applied to the synthetic coordinate of new_from_normal gives
\* back normal_ref = pos.
C13_RoundTrip ==
    (/\ call_input.f = "coord_shift"
     /\ call_result # NotRun
     /\ call_result.shifted
     /\ StrictlyOutside)
    => call_result.back.ok /\ call_result.back.normal_ref = call_input.pos

\* the failing input of C13: one span 2..3, position 4
C13_FailingInput ==
    ~(/\ call_input.f = "coord_shift"
      /\ call_input.ilocs = <<ILoc("2L", 2, 3)>>
      /\ call_input.chrom = "2L"
      /\ call_input.pos = 4
      /\ call_result # NotRun
      /\ call_result.shifted
      /\ call_result.v.sg_ref = OutsideTransposon(2)
      /\ call_result.back.normal_ref = 2)
\* the spans of the chromosome of the call that hold its position, the upstream
\* end left out and the downstream end included
SpansHolding ==
    {i \in 1..Len(call_input.ilocs) :
        /\ call_input.ilocs[i].chrom = call_input.chrom
        /\ call_input.ilocs[i].upstream_pos < call_input.pos
        /\ call_input.pos <= call_input.ilocs[i].downstream_pos}

\* the spans of the chromosome of the call that hold its position strictly inside
SpansStrictlyHolding ==
    {i \in SpansHolding : call_input.pos < call_input.ilocs[i].downstream_pos}

\* the sum of the lengths of the first n spans that lie entirely upstream of
\* the position of the call, on its chromosome
RECURSIVE RemovedUpTo(_)
RemovedUpTo(n) ==
    IF n = 0 THEN 0
    ELSE RemovedUpTo(n - 1) +
         (IF /\ call_input.ilocs[n].chrom = call_input.chrom
             /\ call_input.ilocs[n].downstream_pos < call_input.pos
          THEN call_input.ilocs[n].downstream_pos - call_input.ilocs[n].upstream_pos + 1
          ELSE 0)

TotalRemoved == RemovedUpTo(Len(call_input.ilocs))

SpanOf(i) ==
    WithinTransposon(call_input.ilocs[i].upstream_pos, call_input.ilocs[i].downstream_pos)

Parsed(f) == call_input.f = "parse" /\ call_result # NotRun /\ call_result.f = f

\* C15: a string aSbM with a, b > 0 at position pos is classified, on the TE
\* side and on the genome side, as SM with s = a and m = b, and the boundary
\* (first matching base) of that shape is pos.
C15_SoftThenMatch ==
    (call_input.f = "parse" /\ call_result # NotRun /\ call_input.form = <<"S", "M">>)
    => /\ call_result.f \in {"SplitReadTE::parse", "SplitReadGenome::parse"}
          => /\ call_result.v = SMAlignment(call_input.a, call_input.b, call_input.pos)
             /\ get_first_m(call_result.v) = call_input.pos
       /\ call_result.f = "GenomeAlignment::create"
          => /\ call_result.v.res = "ok"
             /\ call_result.v.al.split_read_genome =
                    SMAlignment(call_input.a, call_input.b, call_input.pos)
             /\ get_boundary_nt(call_result.v.al) = call_input.pos
             /\ ~upstream(call_result.v.al)

\* the string 12S144M was classified on the TE side
C15_Witness ==
    /\ Parsed("SplitReadTE::parse")
    /\ call_input.cigar = <<"1", "1", "S", "1", "4", "4", "M">>
    /\ call_input.pos = 2
    /\ call_result.v.kind = "SM"
    /\ call_result.v.s = 11

\* C16: a string aMbS with a, b > 0 at position pos is classified, on the TE
\* side and on the genome side, as MS with m = a and s = b, and the boundary
\* (last matching base) of that shape is pos + a - 1.
C16_MatchThenSoft ==
    (call_input.f = "parse" /\ call_result # NotRun /\ call_input.form = <<"M", "S">>)
    => /\ call_result.f \in {"SplitReadTE::parse", "SplitReadGenome::parse"}
          => /\ call_result.v = MSAlignment(call_input.a, call_input.b, call_input.pos)
             /\ get_last_m(call_result.v) = call_input.pos + call_input.a - 1
       /\ call_result.f = "GenomeAlignment::create"
          => /\ call_result.v.res = "ok"
             /\ call_result.v.al.split_read_genome =
                    MSAlignment(call_input.a, call_input.b, call_input.pos)
             /\ get_boundary_nt(call_result.v.al) = call_input.pos + call_input.a - 1
             /\ upstream(call_result.v.al)

\* the string 144M11S was classified on the genome side
C16_Witness ==
    /\ Parsed("SplitReadGenome::parse")
    /\ call_input.cigar = <<"1", "4", "4", "M", "1", "1", "S">>
    /\ call_input.pos = 3
    /\ call_result.v.kind = "MS"
    /\ call_result.v.m = 144
\* one of the five patterns matches the string
AnyPattern(cigar) ==
    HM_REGEX(cigar) \/ MH_REGEX(cigar) \/ SM_REGEX(cigar) \/ MS_REGEX(cigar) \/ M_REGEX(cigar)

IsShape(v) == v.kind \in {"SM", "MS", "M"}

\* C17: a string that matches none of the five patterns yields no shape and
\* the builder rejects the record; a string that matches yields one shape.
C17_ShapeOrNone ==
    (call_input.f = "parse" /\ call_result # NotRun)
    => /\ call_result.f = "SplitReadGenome::parse"
          => IF AnyPattern(call_input.cigar) THEN IsShape(call_result.v)
             ELSE call_result.v = NoShape
       /\ call_result.f = "GenomeAlignment::create"
          => IF AnyPattern(call_input.cigar)
             THEN call_result.v.res = "ok" /\ IsShape(call_result.v.al.split_read_genome)
             ELSE call_result.v.res = "skip"

\* the failing input of C17: a soft-clip run whose numeral is above
\* std::u64::MAX unwinds the builder
C17_FailingInput ==
    ~(/\ Parsed("GenomeAlignment::create")
      /\ call_input.cigar = OverflowNumeral \o <<"S", "1", "M">>
      /\ SM_REGEX(call_input.cigar)
      /\ call_result.v = Panic)

\* the string with every hard clip written as a soft clip
RECURSIVE Softened(_)
Softened(cigar) ==
    IF cigar = <<>> THEN <<>>
    ELSE <<IF Head(cigar) = "H" THEN "S" ELSE Head(cigar)>> \o Softened(Tail(cigar))

\* the number of the five patterns that match the string
PatternCount(cigar) ==
    Cardinality({k \in 1..5 : CASE k = 1 -> HM_REGEX(cigar)
                                [] k = 2 -> MH_REGEX(cigar)
                                [] k = 3 -> SM_REGEX(cigar)
                                [] k = 4 -> MS_REGEX(cigar)
                                [] k = 5 -> M_REGEX(cigar)})

\* C20: the genome side reads a hard clip as a soft clip (HM as SM, MH as MS)
\* and knows the five patterns HM, MH, SM, MS and M, of which a string matches
\* at most one; the TE side knows the two soft-clip patterns only and yields no
\* shape for a hard-clip or a pure-match string.
C20_HardClipAsSoft ==
    (call_input.f = "parse" /\ call_result # NotRun)
    => /\ PatternCount(call_input.cigar) <= 1
       /\ call_result.f = "SplitReadGenome::parse"
          => /\ call_result.v =
                    SplitReadGenome_parse(Softened(call_input.cigar), 2, 1,
                                          call_input.is_start, TRUE, call_input.pos)
             /\ call_input.form \in {<<"H", "M">>, <<"S", "M">>}
                    => call_result.v =
                           SMAlignment(call_input.a, call_input.b, call_input.pos)
             /\ call_input.form \in {<<"M", "H">>, <<"M", "S">>}
                    => call_result.v =
                           MSAlignment(call_input.a, call_input.b, call_input.pos)
             /\ M_REGEX(call_input.cigar)
                    => call_result.v =
                           MAlignment(1, 2, call_input.is_start, TRUE, call_input.pos)
       /\ call_result.f = "SplitReadTE::parse"
          => /\ (\/ HM_REGEX(call_input.cigar)
                 \/ MH_REGEX(call_input.cigar)
                 \/ M_REGEX(call_input.cigar)) => call_result.v = NoShape
             /\ call_input.form \in {<<"H", "M">>, <<"M", "H">>} => call_result.v = NoShape
             /\ call_input.form = <<"S", "M">> => call_result.v.kind = "SM"
             /\ call_input.form = <<"M", "S">> => call_result.v.kind = "MS"
             /\ IsShape(call_result.v)
                    => SM_REGEX(call_input.cigar) \/ MS_REGEX(call_input.cigar)

\* the string 2H11M was classified on the genome side
C20_Witness ==
    /\ Parsed("SplitReadGenome::parse")
    /\ call_input.cigar = <<"2", "H", "1", "1", "M">>
    /\ call_result.v = SMAlignment(2, 11, call_input.pos)
(***************************************************************************)
(* The TE-side builder.                                                    *)
(***************************************************************************)
\* the builder was called on a mapped record
CreatedMapped ==
    call_input.f = "te_create" /\ call_result # NotRun /\ is_mapped(call_input.rec.flag)

Accepted == call_result.v.res = "ok"
Named == call_input.rec.rname \in DOMAIN call_input.transposon_lengths
ShapeOfRecord == SplitReadTE_parse(call_input.rec.cigar, call_input.rec.pos)

\* SM with the first matching base at position 1 of the transposon
StartsAtOne == ShapeOfRecord.kind = "SM" /\ call_input.rec.pos = 1
\* MS with the last matching base at the length of the named transposon
EndsAtLength ==
    /\ ShapeOfRecord.kind = "MS"
    /\ Named
    /\ call_input.rec.pos + ShapeOfRecord.m - 1
           = call_input.transposon_lengths[call_input.rec.rname]

\* the accepted alignment has the run lengths of the string and is_sm = is_start
FieldsOfShape ==
    /\ call_result.v.al.is_sm = (ShapeOfRecord.kind = "SM")
    /\ call_result.v.al.is_start = call_result.v.al.is_sm
    /\ call_result.v.al.m_size = ShapeOfRecord.m
    /\ call_result.v.al.s_size = ShapeOfRecord.s
    /\ call_input.form = <<"S", "M">>
           => call_result.v.al.s_size = call_input.a /\ call_result.v.al.m_size = call_input.b
    /\ call_input.form = <<"M", "S">>
           => call_result.v.al.m_size = call_input.a /\ call_result.v.al.s_size = call_input.b

\* C18 as stated: a mapped record is accepted iff it is SM with the first
\* matching base at position 1 or MS with pos + m - 1 equal to the length of
\* the named transposon.
C18_AcceptedIff ==
    CreatedMapped
    => /\ Accepted <=> (StartsAtOne \/ EndsAtLength)
       /\ Accepted => FieldsOfShape

\* C18, amended: a mapped record is accepted iff it names a transposon of the
\* table and is SM with the first matching base at position 1 (is_sm =
\* is_start = true) or MS with pos + m - 1 equal to the length of that
\* transposon (is_sm = is_start = false); m_size and s_size are the run
\* lengths of the string.
C18_AcceptedIffNamed ==
    CreatedMapped
    => /\ Accepted <=> (Named /\ (StartsAtOne \/ EndsAtLength))
       /\ Accepted => FieldsOfShape

\* the record 2S3M of the minus strand at position 1 was accepted
C18_Witness ==
    /\ CreatedMapped
    /\ Accepted
    /\ call_input.rec.flag = 16
    /\ call_input.rec.cigar = <<"2", "S", "3", "M">>
    /\ call_result.v.al.is_sm /\ call_result.v.al.is_start
    /\ call_result.v.al.m_size = 3 /\ call_result.v.al.s_size = 2

\* the record 144M6S at position 8949 of a named transposon
RooRecord ==
    /\ CreatedMapped
    /\ Named
    /\ call_input.rec.cigar = <<"1", "4", "4", "M", "6", "S">>
    /\ call_input.rec.pos = 8949

\* C19 as stated: the record 144M6S at position 8949 is accepted only if the
\* match-run length 144 equals the transposon length; with length 150 it is
\* rejected.
C19_RunEqualsLength ==
    RooRecord
    => /\ Accepted => call_input.transposon_lengths[call_input.rec.rname] = 144
       /\ call_input.transposon_lengths[call_input.rec.rname] = 150 => ~Accepted

\* C19, amended: the record 144M6S at position 8949 is accepted iff its last
\* matching base 8949 + 144 - 1 = 9092 equals the transposon length; with
\* length 150, and with length 144, it is rejected.
C19_EndEqualsLength ==
    RooRecord
    => /\ Accepted <=> call_input.transposon_lengths[call_input.rec.rname] = 9092
       /\ call_input.transposon_lengths[call_input.rec.rname] \in {144, 150}
              => call_result.v = Skip
       /\ Accepted => /\ call_result.v.al.m_size = 144
                      /\ call_result.v.al.s_size = 6
                      /\ ~call_result.v.al.is_sm
                      /\ ~call_result.v.al.is_start

\* the record 144M6S at position 8949 was accepted for the length 9092
C19_Witness ==
    /\ RooRecord
    /\ Accepted
    /\ call_input.transposon_lengths[call_input.rec.rname] = 9092
    /\ call_result.v.al.m_size = 144
(***************************************************************************)
(* The boundary and the side of a genome alignment.                        *)
(***************************************************************************)
\* the builder made a genome alignment of the record of a selected read
BuiltFromTe == call_input.f = "from_te" /\ call_result # NotRun /\ call_result.v.res = "ok"

\* bit 16 of the flag is clear
OnPlusStrand == call_input.flag \in {0, 256}

\* C21: the boundary nucleotide of an M shape is, on the plus strand,
\* new_pos + old_s when is_start and new_pos + old_m - 1 otherwise, and on the
\* minus strand new_pos + old_m - 1 when is_start and new_pos + old_s
\* otherwise, old_m and old_s being the m_size and s_size the TE side wrote.
C21_BoundaryOfMatch ==
    (BuiltFromTe /\ call_result.v.al.split_read_genome.kind = "M")
    => /\ call_result.v.al.split_read_genome.old_m = call_input.te.m_size
       /\ call_result.v.al.split_read_genome.old_s = call_input.te.s_size
       /\ get_boundary_nt(call_result.v.al) =
              IF OnPlusStrand = call_input.te.is_start
              THEN call_input.pos + call_input.te.s_size
              ELSE call_input.pos + call_input.te.m_size - 1

\* a pure match of the minus strand, of a read that matched the start of the
\* transposon with m_size 3 and s_size 1
C21_Witness ==
    /\ BuiltFromTe
    /\ call_result.v.al.split_read_genome.kind = "M"
    /\ ~OnPlusStrand
    /\ call_input.te.is_start
    /\ call_input.te.m_size = 3 /\ call_input.te.s_size = 1
    /\ get_boundary_nt(call_result.v.al) = call_input.pos + 2

\* C22: upstream is true for every MS shape and for an M shape exactly when
\* is_start and the strand agree (is_start XOR plus is false), false for
\* every SM shape and every other M shape; the strand is plus exactly when
\* bit 16 of the flag is clear.
C22_UpstreamSide ==
    BuiltFromTe
    => /\ call_result.v.al.new_plus = OnPlusStrand
       /\ upstream(call_result.v.al) =
              CASE call_result.v.al.split_read_genome.kind = "MS" -> TRUE
                [] call_result.v.al.split_read_genome.kind = "SM" -> FALSE
                [] call_result.v.al.split_read_genome.kind = "M" ->
                       (call_input.te.is_start = OnPlusStrand)

\* a pure match of the minus strand of a read that matched the end of the
\* transposon is upstream
C22_Witness ==
    /\ BuiltFromTe
    /\ call_result.v.al.split_read_genome.kind = "M"
    /\ call_input.flag = 272
    /\ ~call_input.te.is_start
    /\ upstream(call_result.v.al)

(***************************************************************************)
(* Properties of the pass of get_non_ref_tes.                              *)
(***************************************************************************)
InNonRefPass == call_input.f = "non_ref" /\ call_result # NotRun
\* the last iteration of the pass: its read, the accumulators around it
Stepped == call_result.last # <<>>
PassRead == call_result.last[1]
PassBefore == call_result.before
PassAfter == call_result.tes
PassCurrent == PassBefore[Len(PassBefore)]
PassPosition == get_boundary_nt(PassRead)
Returned == InNonRefPass /\ call_result.done

\* the pass, taken one read at a time, returns what get_non_ref_tes returns
NonRefPassReturns ==
    Returned =>
        call_result.v = get_non_ref_tes(call_input.heap, call_input.min_tsd_length,
                                        call_input.max_tsd_length, "2L")

C26_OneNamePerInsertion ==
    InNonRefPass =>
        /\ Stepped => PassAfter[Len(PassAfter)].name = PassRead.te_name
        /\ \A i \in 1..Len(call_result.tes) :
               KeepInsertion(call_result.tes[i]) =>
                   Cardinality(call_result.counted[i]) = 1

\* the pass has returned an insertion named 1 that counts a read of
\* transposon 2
C26_FailingInput ==
    /\ Returned
    /\ \E i \in 1..Len(call_result.tes) :
           /\ KeepInsertion(call_result.tes[i])
           /\ call_result.tes[i].name = 1
           /\ call_result.counted[i] = {1, 2}
           /\ call_result.tes[i] \in {call_result.v[j] : j \in 1..Len(call_result.v)}

\* C27: an upstream-side read has orientation ++ if its TE-side shape is SM
\* and +- if it is MS; it is merged into the current insertion exactly when
\* the orientations are equal and its position is current.upstream_pos (the
\* count goes up, the position stays) or lies in [current.downstream_pos +
\* min_tsd_length, current.downstream_pos + max_tsd_length] (upstream_pos
\* becomes the position, the count goes up); in every other case a new
\* insertion starts at the position with the sentinel as downstream_pos and
\* counts up 1, down 0.
C27_UpstreamMerge ==
    (InNonRefPass /\ Stepped /\ upstream(PassRead)) =>
        LET o == IF PassRead.is_sm_te THEN "PlusPlus" ELSE "PlusMinus"
            same == PassBefore # <<>> /\ o = PassCurrent.orientation
            n == Len(PassBefore)
        IN  IF same /\ PassPosition = PassCurrent.upstream_pos
            THEN PassAfter = [PassBefore EXCEPT ![n].num_upstream_reads = @ + 1]
            ELSE IF /\ same
                    /\ PassPosition >= PassCurrent.downstream_pos + call_input.min_tsd_length
                    /\ PassPosition <= PassCurrent.downstream_pos + call_input.max_tsd_length
            THEN PassAfter = [PassBefore EXCEPT ![n].num_upstream_reads = @ + 1,
                                                ![n].upstream_pos = PassPosition]
            ELSE PassAfter = Append(PassBefore,
                                    Insertion(PassRead.te_name, "2L", PassPosition,
                                              Sentinel, o, 1, 0))

\* an upstream-side read at the upper end of the window of a current
\* insertion with another upstream_pos has been merged and has moved it
C27_Witness ==
    /\ InNonRefPass /\ Stepped /\ upstream(PassRead)
    /\ PassBefore # <<>>
    /\ PassCurrent.upstream_pos \notin {PassPosition, Sentinel}
    /\ PassPosition = PassCurrent.downstream_pos + call_input.max_tsd_length
    /\ Len(PassAfter) = Len(PassBefore)
    /\ PassAfter[Len(PassAfter)].upstream_pos = PassPosition
    /\ PassAfter[Len(PassAfter)].num_upstream_reads = PassCurrent.num_upstream_reads + 1

\* C28: a downstream-side read is merged into the current insertion only
\* when the orientations are equal and its position is exactly
\* current.downstream_pos; at any other position, however close, it starts a
\* new insertion with downstream_pos its position, upstream_pos the sentinel
\* and counts up 0, down 1.
C28_DownstreamExact ==
    (InNonRefPass /\ Stepped /\ ~upstream(PassRead)) =>
        LET o == IF PassRead.is_sm_te THEN "PlusMinus" ELSE "PlusPlus"
            n == Len(PassBefore)
        IN  IF /\ PassBefore # <<>>
               /\ o = PassCurrent.orientation
               /\ PassPosition = PassCurrent.downstream_pos
            THEN PassAfter = [PassBefore EXCEPT ![n].num_downstream_reads = @ + 1]
            ELSE PassAfter = Append(PassBefore,
                                    Insertion(PassRead.te_name, "2L", Sentinel,
                                              PassPosition, o, 0, 1))

\* a downstream-side read of the orientation of the current insertion, one
\* position after its downstream_pos, has started a new insertion
C28_Witness ==
    /\ InNonRefPass /\ Stepped /\ ~upstream(PassRead)
    /\ PassBefore # <<>>
    /\ PassAfter[Len(PassAfter)].orientation = PassCurrent.orientation
    /\ PassPosition = PassCurrent.downstream_pos + 1
    /\ Len(PassAfter) = Len(PassBefore) + 1
    /\ PassAfter[Len(PassAfter)].upstream_pos = Sentinel
    /\ PassAfter[Len(PassAfter)].num_upstream_reads = 0
    /\ PassAfter[Len(PassAfter)].num_downstream_reads = 1

(***************************************************************************)
(* Properties of the pass of get_ref_tes.                                  *)
(***************************************************************************)
InRefPass == call_input.f = "ref" /\ call_result # NotRun
PassOrientation == IF PassRead.new_plus THEN "PlusPlus" ELSE "PlusMinus"

\* the pass, taken one read at a time, returns what get_ref_tes returns
RefPassReturns ==
    (InRefPass /\ call_result.done) =>
        call_result.v = get_ref_tes(call_input.heap, call_input.min_te_length,
                                    call_input.max_te_length, call_input.all_te_lengths,
                                    "2L")

\* C29: in get_ref_tes an upstream-side read, whose orientation is that of
\* its genome-side strand, is merged into the current insertion only when
\* the orientations are equal and its position is exactly
\* current.upstream_pos; otherwise it starts a new insertion with
\* upstream_pos its position and downstream_pos the sentinel.
C29_RefUpstreamExact ==
    (InRefPass /\ Stepped /\ upstream(PassRead)) =>
        IF /\ PassBefore # <<>>
           /\ PassOrientation = PassCurrent.orientation
           /\ PassPosition = PassCurrent.upstream_pos
        THEN PassAfter = [PassBefore EXCEPT
                              ![Len(PassBefore)].num_upstream_reads = @ + 1]
        ELSE PassAfter = Append(PassBefore,
                                Insertion(PassRead.te_name, "2L", PassPosition, Sentinel,
                                          PassOrientation, 1, 0))

\* an upstream-side read on the minus strand, one position after the
\* upstream_pos of a current insertion of its orientation, has started a
\* new insertion
C29_Witness ==
    /\ InRefPass /\ Stepped /\ upstream(PassRead)
    /\ ~PassRead.new_plus
    /\ PassBefore # <<>>
    /\ PassCurrent.orientation = "PlusMinus"
    /\ PassPosition = PassCurrent.upstream_pos + 1
    /\ Len(PassAfter) = Len(PassBefore) + 1
    /\ PassAfter[Len(PassAfter)].upstream_pos = PassPosition
    /\ PassAfter[Len(PassAfter)].downstream_pos = Sentinel

\* the integer part of fraction * length
Truncated(fraction, length) ==
    CHOOSE n \in 0..(fraction[1] * length) :
        /\ n * fraction[2] <= fraction[1] * length
        /\ fraction[1] * length < (n + 1) * fraction[2]

\* C30: in get_ref_tes a downstream-side read is merged into the current
\* insertion exactly when the orientations are equal and its position is
\* current.downstream_pos (the count goes up) or lies in [upstream_pos +
\* trunc(min_te_length * L), upstream_pos + trunc(max_te_length * L)]
\* (downstream_pos becomes the position, the count goes up), each product
\* being truncated toward zero before it is added; otherwise a new insertion
\* is started.
C30_RefDownstreamWindow ==
    (/\ call_input.f = "ref_step"
     /\ call_result # NotRun
     /\ ~upstream(call_input.alignment)) =>
        LET same == ReadOrientation = CurrentInsertion.orientation
            lo == CurrentInsertion.upstream_pos
                      + Truncated(call_input.min_te_length, call_input.cur_te_length)
            hi == CurrentInsertion.upstream_pos
                      + Truncated(call_input.max_te_length, call_input.cur_te_length)
        IN  IF same /\ ReadPosition = CurrentInsertion.downstream_pos
            THEN call_result.v =
                     <<[CurrentInsertion EXCEPT !.num_downstream_reads = @ + 1]>>
            ELSE IF same /\ ReadPosition >= lo /\ ReadPosition <= hi
            THEN call_result.v =
                     <<[CurrentInsertion EXCEPT !.num_downstream_reads = @ + 1,
                                                !.downstream_pos = ReadPosition]>>
            ELSE call_result.v =
                     <<CurrentInsertion,
                       Insertion(call_input.alignment.te_name, "2L", Sentinel,
                                 ReadPosition, ReadOrientation, 0, 1)>>

\* a read at upstream_pos + trunc(max_te_length * L), where max_te_length * L
\* is not a whole number, was merged and moved downstream_pos; the read one
\* position further would lie below the product
C30_Witness ==
    /\ call_input.f = "ref_step"
    /\ call_result # NotRun
    /\ ~upstream(call_input.alignment)
    /\ (call_input.max_te_length[1] * call_input.cur_te_length)
           % call_input.max_te_length[2] # 0
    /\ ReadOffset = Truncated(call_input.max_te_length, call_input.cur_te_length)
    /\ CurrentInsertion.downstream_pos \notin {ReadPosition, Sentinel}
    /\ Len(call_result.v) = 1
    /\ call_result.v[1].downstream_pos = ReadPosition
    /\ call_result.v[1].num_downstream_reads = 2

(***************************************************************************)
(* Properties of the output file.                                          *)
(***************************************************************************)
Written == call_input.f = "write" /\ call_result # NotRun /\ call_result.done
FileItems == {call_result.file[i] : i \in 1..Len(call_result.file)}

\* C24: when the flag selects TSV the file is the column header followed by
\* tab-separated rows, and when it selects JSON the file is JSON: the start
\* of the file has the format of the rows that follow it.
C24_StartMatchesRows ==
    Written =>
        IF call_input.output_should_be_json
        THEN \A item \in FileItems : item.fmt = "json"
        ELSE /\ call_result.file[1] = TsvHeader
             /\ \A i \in 2..Len(call_result.file) :
                    call_result.file[i].fmt = "tsv" /\ ~call_result.file[i].header

\* stanex, with the flag set: the column header has been written before an
\* insertion in JSON
C24_FailingInput ==
    /\ Written
    /\ bin = "stanex"
    /\ call_input.output_should_be_json
    /\ Len(call_result.file) >= 2
    /\ call_result.file[1] = TsvHeader
    /\ call_result.file[2].fmt = "json"

(***************************************************************************)
(* Properties of step 1.                                                   *)
(***************************************************************************)
Step1Done == call_input.f = "step1" /\ call_result # NotRun
SortedReads == call_result.v.reads
TeLists == call_result.v.te_lists
\* the indices into the sorted list of the reads of a name, ascending
RECURSIVE IndicesOf(_, _, _)
IndicesOf(name, sorted, n) ==
    IF n = 0 THEN <<>>
    ELSE IF sorted[n].te_name = name THEN Append(IndicesOf(name, sorted, n - 1), n - 1)
    ELSE IndicesOf(name, sorted, n - 1)

\* C25: for a list of reads that is not empty, step1 sorts the reads by
\* name and returns one TEList per name of the list, in ascending order of
\* the names, whose reads are the indices into the sorted list of the reads
\* of that name, ascending; every index 0..n-1 is in exactly one TEList.
C25_PartitionByName ==
    (Step1Done /\ call_input.chrom_list.reads # <<>>) =>
        /\ call_result.v.res = "ok"
        /\ \A i \in 1..(Len(SortedReads) - 1) :
               str_le(SortedReads[i].te_name, SortedReads[i + 1].te_name)
        /\ {TeLists[k].te_name : k \in 1..Len(TeLists)}
               = {SortedReads[i].te_name : i \in 1..Len(SortedReads)}
        /\ \A k \in 1..(Len(TeLists) - 1) :
               /\ str_le(TeLists[k].te_name, TeLists[k + 1].te_name)
               /\ TeLists[k].te_name # TeLists[k + 1].te_name
        /\ \A k \in 1..Len(TeLists) :
               TeLists[k].reads
                   = IndicesOf(TeLists[k].te_name, SortedReads, Len(SortedReads))
        /\ \A i \in 0..(Len(SortedReads) - 1) :
               Cardinality({k \in 1..Len(TeLists) :
                               \E j \in 1..Len(TeLists[k].reads) :
                                   TeLists[k].reads[j] = i}) = 1

\* a read with the empty name and a read named 1: the only TEList returned
\* is that of name 1, and index 0 is in no TEList
C25_FailingInput ==
    /\ Step1Done
    /\ Len(SortedReads) = 2
    /\ SortedReads[1].te_name = <<>>
    /\ SortedReads[2].te_name = <<1>>
    /\ TeLists = <<TEList(<<1>>, <<1>>)>>

(***************************************************************************)
(* Properties of make_3d_vector.                                           *)
(***************************************************************************)
Made3d == call_input.f = "make_3d" /\ call_result # NotRun
Popped == call_result.popped
Vector3d == call_result.r.v
\* the number of places of a sequence that hold x
RECURSIVE CountIn(_, _)
CountIn(s, x) ==
    IF s = <<>> THEN 0 ELSE (IF Head(s) = x THEN 1 ELSE 0) + CountIn(Tail(s), x)

\* C31: make_3d_vector drains the heap in ascending (transposon name,
\* boundary) order and returns a partition of the pool in three levels: the
\* outer groups have distinct names in ascending order, the position groups
\* of an outer group have strictly ascending boundaries, an inner list holds
\* reads of that name and that boundary only, and every read of the pool is
\* in exactly one inner list.
C31_ThreeLevelPartition ==
    Made3d =>
        /\ call_result.r.res = "ok"
        /\ \A i \in 1..(Len(Popped) - 1) : ~KeyLess(Popped[i + 1], Popped[i])
        /\ \A i \in 1..(Len(Vector3d) - 1) :
               Vector3d[i][1][1].te_name < Vector3d[i + 1][1][1].te_name
        /\ \A i \in 1..Len(Vector3d) :
               /\ Vector3d[i] # <<>>
               /\ \A j \in 1..(Len(Vector3d[i]) - 1) :
                      get_boundary_nt(Vector3d[i][j][1])
                          < get_boundary_nt(Vector3d[i][j + 1][1])
               /\ \A j \in 1..Len(Vector3d[i]) :
                      /\ Vector3d[i][j] # <<>>
                      /\ \A k \in 1..Len(Vector3d[i][j]) :
                             /\ Vector3d[i][j][k].te_name = Vector3d[i][1][1].te_name
                             /\ get_boundary_nt(Vector3d[i][j][k])
                                    = get_boundary_nt(Vector3d[i][j][1])
        /\ Len(Flatten(Flatten(Vector3d))) = Len(call_input.heap)
        /\ \A i \in 1..Len(call_input.heap) :
               CountIn(Flatten(Flatten(Vector3d)), call_input.heap[i])
                   = CountIn(call_input.heap, call_input.heap[i])

\* a pool of one read whose transposon name is the empty string: the call
\* has panicked
C31_FailingInput ==
    /\ Made3d
    /\ Len(call_input.heap) = 1
    /\ call_input.heap[1].te_name = 0
    /\ call_result.r = Panic

(***************************************************************************)
(* The pools.                                                              *)
(***************************************************************************)
SameReads(s, t) ==
    /\ Len(s) = Len(t)
    /\ \A i \in 1..Len(s) : CountIn(s, s[i]) = CountIn(t, s[i])

\* the chromosomes whose pools the assembly has been run on
Assembled == {params.chroms[i] : i \in 1..chrom_no}

\* the pools of chromosome c with one more read, al, in pool p
PooledIn(c, p, al) ==
    /\ Len(pools'[c][p]) = Len(pools[c][p]) + 1
    /\ CountIn(pools'[c][p], al) = CountIn(pools[c][p], al) + 1
    /\ \A i \in 1..Len(pools[c][p]) :
           pools[c][p][i] # al
               => CountIn(pools'[c][p], pools[c][p][i]) = CountIn(pools[c][p], pools[c][p][i])
    /\ \A d \in DOMAIN pools, q \in {"nonref", "ref"} :
           (d # c \/ q # p) => pools'[d][q] = pools[d][q]

LocksOf(w) ==
    {l \in {"reader", "counter", "writer"} :
        CASE l = "reader" -> reader_lock = WorkerThread(w)
          [] l = "counter" -> counter_lock = WorkerThread(w)
          [] OTHER -> writer_lock = WorkerThread(w)}

\* C33: a worker that is about to classify its record, or has classified it
\* and waits for the writer, holds none of the three locks; a worker holds
\* the reader lock only for its one read_line and the writer lock only for
\* the write of its one record, and the line counter is bumped in one step
C33_NoLockWhileClassifying ==
    \A w \in WorkerIds :
        /\ wpc[w] \in {"count", "classify", "lock_writer", "lock_reader"} => LocksOf(w) = {}
        /\ reader_lock = WorkerThread(w) <=> wpc[w] = "read"
        /\ writer_lock = WorkerThread(w) <=> wpc[w] = "write_seq"
        /\ counter_lock # WorkerThread(w)

\* one worker classifies while the other one holds the reader lock
C33_Witness ==
    \E w, v \in WorkerIds :
        /\ wpc[w] = "classify"
        /\ wrec[w] > 0
        /\ LocksOf(w) = {}
        /\ v # w
        /\ reader_lock = WorkerThread(v)


(***************************************************************************)
(* The reference position of a synthetic position.                         *)
(***************************************************************************)
ConvertedBack ==
    call_input.f = "to_reference" /\ call_result # NotRun /\ call_result.converted

\* C34: for every synthetic position and every sorted list of disjoint
\* spans, the reference position new_from_sg returns lies in no span of the
\* chromosome, and new_from_normal on it gives no within-transposon result.
C34_ReferenceOutsideSpans ==
    ConvertedBack
    => /\ \A i \in 1..Len(call_input.ilocs) :
              ~contains(call_input.ilocs[i], call_input.chrom, call_result.v.normal_ref)
       /\ call_result.back.ok
       /\ call_result.back.sg_ref.kind = "OutsideTransposon"

\* the failing input of C34: one span 2..3, synthetic position 3, which is
\* reference position 5; new_from_sg returned 3, the downstream end of the
\* span, and new_from_normal on it the within-transposon result
C34_FailingInput ==
    /\ ConvertedBack
    /\ call_input.ilocs = <<ILoc("2L", 2, 3)>>
    /\ call_input.chrom = "2L"
    /\ call_input.sg_pos = 3
    /\ call_result.v.normal_ref = 3
    /\ call_result.back.sg_ref = WithinTransposon(2, 3)


(***************************************************************************)
(* The groups of step 4.                                                   *)
(***************************************************************************)
Step4Done == call_input.f = "step4" /\ call_result # NotRun

\* the groups of the result that hold read i of the sub-list
GroupsOf(i) ==
    {g \in 1..Len(call_result.r.v) :
        \E k \in 1..Len(call_result.r.v[g].reads) :
            call_result.r.v[g].reads[k] = call_input.reads[i]}

\* C35: on a sub-list sorted by boundary, two consecutive reads whose
\* boundaries differ by at most group_blur are in the same group of the
\* result of step4, wherever they lie relative to the first read.
C35_CloseReadsShareGroup ==
    (Step4Done /\ call_input.reads # <<>>)
    => /\ call_result.r.res = "ok"
       /\ \A i \in 1..(Len(call_input.reads) - 1) :
              (call_input.boundary[call_input.reads[i + 1]]
                   - call_input.boundary[call_input.reads[i]] <= call_input.group_blur)
              => GroupsOf(i) = GroupsOf(i + 1)

\* the failing input of C35: boundaries 0, 2, 3 and group_blur 2; the third
\* read is 1 away from the second and 3 away from the first, and it is put
\* in a group of its own
C35_FailingInput ==
    /\ Step4Done
    /\ call_input.boundary = <<0, 2, 3>>
    /\ call_input.group_blur = 2
    /\ call_result.r.res = "ok"
    /\ call_result.r.v = <<[reads |-> <<1, 2>>], [reads |-> <<3>>]>>


(***************************************************************************)
(* The accumulators of the two passes.                                     *)
(***************************************************************************)
InPass == call_input.f \in {"non_ref", "ref"} /\ call_result # NotRun

\* the reads of the pool that the pass has not taken yet
RECURSIVE ReadsToCome(_)
ReadsToCome(groups) ==
    IF groups = <<>> THEN 0 ELSE Len(Flatten(Head(groups))) + ReadsToCome(Tail(groups))

\* the sum of the upstream and downstream counts over the accumulators
RECURSIVE SumOfCounts(_)
SumOfCounts(tes) ==
    IF tes = <<>> THEN 0
    ELSE Head(tes).num_upstream_reads + Head(tes).num_downstream_reads
             + SumOfCounts(Tail(tes))

\* the accumulators after an iteration differ from those before it by one
\* count of the last one, or by one new accumulator with one read counted
OneCountMore(before, after, k) ==
    \/ /\ Len(after) = Len(before) + 1
       /\ SubSeq(after, 1, Len(before)) = before
       /\ after[Len(after)][k] = 1
       /\ SumOfCounts(<<after[Len(after)]>>) = 1
    \/ /\ Len(after) = Len(before)
       /\ before # <<>>
       /\ SubSeq(after, 1, Len(before) - 1) = SubSeq(before, 1, Len(before) - 1)
       /\ after[Len(after)][k] = before[Len(before)][k] + 1
       /\ SumOfCounts(after) = SumOfCounts(before) + 1

\* C36: in both passes each read taken adds exactly 1 to exactly one count
\* of exactly one accumulator (the upstream count for an upstream-side read,
\* the downstream count otherwise), so the counts of all accumulators sum to
\* the number of reads taken so far, and after the pass, before the filter,
\* to the number of reads of the pool.
C36_ReadConservation ==
    InPass
    => /\ Stepped =>
              OneCountMore(PassBefore, PassAfter,
                           IF upstream(PassRead) THEN "num_upstream_reads"
                           ELSE "num_downstream_reads")
       /\ SumOfCounts(call_result.tes) + Len(call_result.reads)
              + ReadsToCome(call_result.groups) = Len(call_input.heap)
       /\ call_result.done => SumOfCounts(call_result.tes) = Len(call_input.heap)

\* a pass over a full pool has ended with fewer accumulators than reads, and
\* the filter has dropped one of them
C36_Witness ==
    /\ InPass
    /\ call_result.done
    /\ Len(call_input.heap) = MaxPool
    /\ Len(call_result.tes) = 2
    /\ Len(call_result.v) = 1
    /\ SumOfCounts(call_result.tes) = MaxPool


\* the side whose read starts an accumulator that can be emitted
EmittedStart == IF call_input.f = "non_ref" THEN "downstream" ELSE "upstream"

\* the position and the count of an accumulator on the side opposite to the
\* read that started it
MissingSide(i) ==
    IF call_result.started[i] = "upstream"
    THEN [pos |-> call_result.tes[i].downstream_pos,
          num |-> call_result.tes[i].num_downstream_reads]
    ELSE [pos |-> call_result.tes[i].upstream_pos,
          num |-> call_result.tes[i].num_upstream_reads]

BelowSentinel == \A i \in 1..Len(call_input.heap) :
                     get_boundary_nt(call_input.heap[i]) < Sentinel

\* C37: when all read positions are below the sentinel, an accumulator
\* started from the other side (an upstream-side read in get_non_ref_tes, a
\* downstream-side read in get_ref_tes) keeps the sentinel and a count of 0
\* on the missing side and is not returned; every returned insertion was
\* started from the right side and carries the sentinel in neither position.
C37_NoSentinelEmitted ==
    (InPass /\ BelowSentinel)
    => /\ Len(call_result.started) = Len(call_result.tes)
       /\ \A i \in 1..Len(call_result.tes) :
              call_result.started[i] # EmittedStart
              => /\ MissingSide(i).pos = Sentinel
                 /\ MissingSide(i).num = 0
                 /\ call_result.done
                        => \A k \in 1..Len(call_result.v) :
                               call_result.v[k] # call_result.tes[i]
       /\ \A k \in 1..Len(call_result.v) :
              /\ call_result.v[k].upstream_pos # Sentinel
              /\ call_result.v[k].downstream_pos # Sentinel
              /\ \E i \in 1..Len(call_result.tes) :
                     /\ call_result.tes[i] = call_result.v[k]
                     /\ call_result.started[i] = EmittedStart

\* a pass of get_non_ref_tes has returned one insertion and has dropped an
\* accumulator that an upstream-side read started
C37_Witness ==
    /\ InNonRefPass
    /\ call_result.done
    /\ Len(call_result.v) = 1
    /\ \E i \in 1..Len(call_result.tes) :
           /\ call_result.started[i] = "upstream"
           /\ call_result.tes[i].num_upstream_reads = 1
           /\ call_result.tes[i].downstream_pos = Sentinel

\* C38: a step of a pass leaves every accumulator but the most recently
\* started one as it is, and removes none: once a newer accumulator has been
\* started, the earlier ones stay unchanged to the end of the pass.
C38_OnlyLastChanges ==
    [][(InPass /\ call_result' # NotRun)
       => /\ Len(call_result'.tes) >= Len(call_result.tes)
          /\ \A i \in 1..(Len(call_result.tes) - 1) :
                 call_result'.tes[i] = call_result.tes[i]]_vars

\* a read was merged into the second accumulator, and the first one is as
\* it was
C38_Witness ==
    /\ InPass
    /\ Stepped
    /\ Len(PassBefore) = 2
    /\ Len(PassAfter) = 2
    /\ PassAfter[2] # PassBefore[2]
    /\ PassAfter[1] = PassBefore[1]


(***************************************************************************)
(* Freedom from deadlock of select_reads.                                  *)
(***************************************************************************)
\* C39: a worker holds at most one of the three locks at any time; once a
\* worker has been started the main thread holds neither the reader lock nor
\* the line-counter lock; and until select_reads has returned, some thread
\* can take a step.
C39_NoDeadlock ==
    /\ \A w \in WorkerIds : Cardinality(LocksOf(w)) <= 1
    /\ Spawned # {} => (reader_lock # MainThread /\ counter_lock # MainThread)
    /\ spc # "returned" => ENABLED NextSelect

\* one worker writes its record under the writer lock, the other one waits
\* for that lock
C39_Witness ==
    \E w, v \in WorkerIds :
        /\ wpc[w] = "write_seq"
        /\ writer_lock = WorkerThread(w)
        /\ wpc[v] = "lock_writer"
        /\ ~ENABLED Worker(v)


(***************************************************************************)
(* The hand-off round trip.                                                *)
(***************************************************************************)
HandedOff == call_input.f = "hand_off" /\ call_result # NotRun
NoBar(name) == \A i \in 1..Len(name) : name[i] # "|"

\* C40: for an accepted TE alignment whose read name and transposon name
\* hold no "|", the fields read back from the header that Display wrote are
\* the transposon name, m_size, s_size, is_sm and is_start of the alignment,
\* and the integrity check does not fire.
C40_HandOffRoundTrip ==
    (HandedOff /\ NoBar(call_input.te.qname) /\ NoBar(call_input.te.rname))
    => /\ call_result.r.res = "ok"
       /\ call_result.r.te_name = call_input.te.rname
       /\ call_result.r.old_m = call_input.te.m_size
       /\ call_result.r.old_s = call_input.te.s_size
       /\ call_result.r.is_sm_te = call_input.te.is_sm
       /\ call_result.r.is_start = call_input.te.is_start
       /\ call_result.r.is_sm_te = call_result.r.is_start

\* an MS read of transposon "aa" with a match of two digits and a clip of
\* one was written and read back
C40_Witness ==
    /\ HandedOff
    /\ call_input.te.qname = <<"a">>
    /\ call_input.te.rname = <<"a", "a">>
    /\ call_input.te.m_size = 10
    /\ call_input.te.s_size = 1
    /\ ~call_input.te.is_sm
    /\ call_result.header = <<">", "a", "|", "a", "a", "|", "1", "0", "|", "1", "|",
                              "M", "S", "|", "e", "n", "d">>
    /\ call_result.r.res = "ok"
    /\ call_result.r.old_m = 10

====
